---- MODULE Spec2Model ----
(***************************************************************************)
(* A model of the UAR/UAP zones parser: the DMS codec (parse_dms,          *)
(* decimal_to_dms), the coordinate extractor (get_coords, extract_radius), *)
(* the circle synthesizer (create_circle_polygon), the batch driver (main  *)
(* of create_kml_zones.py) and the shape classifier (analyze_shape).       *)
(*                                                                         *)
(* Python floats are IEEE-754 binary64 values.  They are modelled exactly: *)
(* a float is a record [s, m, e] standing for (-1)^s * m * 2^e, where m is *)
(* zero or a 53-bit natural number, and every arithmetic operation rounds  *)
(* its exact result to the nearest such value, ties to even.  The          *)
(* mantissa does not fit TLC's 32-bit integers, so it is kept as a         *)
(* little-endian sequence of limbs in base 2^15.                           *)
(*                                                                         *)
(* Text is a sequence of characters, each a string: a printable ASCII     *)
(* character is itself, "\t", "\n", "\r" and "\f" are the control           *)
(* characters, every other character is written by its code point          *)
(* ("U+00A0"), and the Cyrillic letters the code mentions have names:      *)
(* "CYR_E" is the capital letter Ie that get_coords replaces by "E".       *)
(* The library functions sin and cos are tables of the C library's values  *)
(* at the arguments the model's inputs lead to; pow, which x ** 2 calls,   *)
(* is computed step by step as the C library computes it.                  *)
(***************************************************************************)
EXTENDS Integers, Sequences, FiniteSets, TLC

(***************************************************************************)
(* Natural numbers of any size: limb sequences, least significant first,   *)
(* without leading zero limbs, so that equal numbers are equal sequences.  *)
(***************************************************************************)
Base == 2^15

Max(a, b) == IF a >= b THEN a ELSE b

Min(a, b) == IF a <= b THEN a ELSE b

Front(s) == SubSeq(s, 1, Len(s) - 1)

\* the sequence f as an explicit tuple: TLC keeps [i \in 1..n |-> e] unevaluated
\* and would evaluate e again at every use
Tuple(f) == f \o <<>>

Rest(s) == IF s = <<>> THEN <<>> ELSE Tail(s)

Low(s) == IF s = <<>> THEN 0 ELSE s[1]

RECURSIVE Zeros(_)
Zeros(k) == IF k <= 0 THEN <<>> ELSE <<0>> \o Zeros(k - 1)

RECURSIVE Zeros0(_)
Zeros0(k) == IF k <= 0 THEN <<>> ELSE <<"0">> \o Zeros0(k - 1)

RECURSIVE BigNorm(_)
BigNorm(a) ==
    IF a = <<>> THEN a
    ELSE IF a[Len(a)] = 0 THEN BigNorm(Front(a)) ELSE a

RECURSIVE BigFromInt(_)
BigFromInt(n) ==
    IF n = 0 THEN <<>> ELSE <<n % Base>> \o BigFromInt(n \div Base)

RECURSIVE BigToInt(_)
BigToInt(a) == IF a = <<>> THEN 0 ELSE a[1] + Base * BigToInt(Tail(a))

RECURSIVE BigAddC(_, _, _)
BigAddC(a, b, c) ==
    IF a = <<>> /\ b = <<>> THEN (IF c = 0 THEN <<>> ELSE <<c>>)
    ELSE LET x == Low(a) + Low(b) + c
         IN  <<x % Base>> \o BigAddC(Rest(a), Rest(b), x \div Base)

BigAdd(a, b) == BigAddC(a, b, 0)

RECURSIVE BigSubB(_, _, _)
BigSubB(a, b, br) ==
    IF a = <<>> THEN <<>>
    ELSE LET x == a[1] - Low(b) - br
         IN  <<x % Base>> \o BigSubB(Tail(a), Rest(b), IF x < 0 THEN 1 ELSE 0)

\* a - b, for a >= b
BigSub(a, b) == BigNorm(BigSubB(a, b, 0))

RECURSIVE BigCmpAt(_, _, _)
BigCmpAt(a, b, i) ==
    IF i = 0 THEN 0
    ELSE IF a[i] > b[i] THEN 1
    ELSE IF a[i] < b[i] THEN -1
    ELSE BigCmpAt(a, b, i - 1)

\* -1, 0 or 1 as a < b, a = b or a > b
BigCmp(a, b) ==
    IF Len(a) > Len(b) THEN 1
    ELSE IF Len(a) < Len(b) THEN -1
    ELSE BigCmpAt(a, b, Len(a))

RECURSIVE BigMulSmallC(_, _, _)
BigMulSmallC(a, k, c) ==
    IF a = <<>> THEN (IF c = 0 THEN <<>> ELSE <<c>>)
    ELSE LET x == a[1] * k + c
         IN  <<x % Base>> \o BigMulSmallC(Tail(a), k, x \div Base)

\* a * k, for 0 <= k < Base
BigMulSmall(a, k) == BigNorm(BigMulSmallC(a, k, 0))

RECURSIVE BigMul(_, _)
BigMul(a, b) ==
    IF a = <<>> \/ b = <<>> THEN <<>>
    ELSE BigAdd(BigMulSmall(a, b[1]), BigNorm(<<0>> \o BigMul(a, Tail(b))))

RECURSIVE BigDivSmallRec(_, _, _)
BigDivSmallRec(a, d, rem) ==
    IF a = <<>> THEN <<>>
    ELSE LET cur == rem * Base + a[Len(a)]
         IN  BigDivSmallRec(Front(a), d, cur % d) \o <<cur \div d>>

\* floor(a / d), for 0 < d <= Base
BigDivSmall(a, d) == BigNorm(BigDivSmallRec(a, d, 0))

\* a * 2^k
BigShl(a, k) ==
    IF a = <<>> THEN <<>>
    ELSE IF k % 15 = 0 THEN Zeros(k \div 15) \o a
    ELSE Zeros(k \div 15) \o BigMulSmall(a, 2^(k % 15))

\* floor(a / 2^k)
BigShr(a, k) ==
    IF Len(a) <= k \div 15 THEN <<>>
    ELSE IF k % 15 = 0 THEN SubSeq(a, (k \div 15) + 1, Len(a))
    ELSE BigDivSmall(SubSeq(a, (k \div 15) + 1, Len(a)), 2^(k % 15))

RECURSIVE BitLenInt(_)
BitLenInt(n) == IF n = 0 THEN 0 ELSE 1 + BitLenInt(n \div 2)

BigBitLen(a) ==
    IF a = <<>> THEN 0 ELSE 15 * (Len(a) - 1) + BitLenInt(a[Len(a)])

BigIsOdd(a) == a # <<>> /\ a[1] % 2 = 1

(***************************************************************************)
(* IEEE-754 binary64 arithmetic, round to nearest, ties to even.  The      *)
(* values the program computes stay far from the overflow and subnormal    *)
(* ranges, which are not modelled.                                         *)
(***************************************************************************)
FZero(s) == [s |-> s, m |-> <<>>, e |-> 0]

IsZero(x) == x.m = <<>>

\* the float nearest to (-1)^s * m * 2^e
FRoundCarry(s, e, q) ==
    IF BigBitLen(q) = 54
    THEN [s |-> s, m |-> BigShr(q, 1), e |-> e + 1]
    ELSE [s |-> s, m |-> q, e |-> e]

\* q the leading 53 bits, c the comparison of the bits cut off with one half:
\* up when above it, or at it and q odd
FRoundTie(s, e, q, c) ==
    FRoundCarry(s, e, IF c = 1 \/ (c = 0 /\ BigIsOdd(q)) THEN BigAdd(q, <<1>>) ELSE q)

\* the bits of m up to bit b of limb j, compared with one half of what they
\* can hold: -1, 0 or 1 as BigCmp
BigCmpHalf(m, j, b) ==
    IF (m[j] \div 2^b) % 2 = 0 THEN -1
    ELSE IF m[j] % 2^b = 0 /\ \A i \in 1..(j - 1) : m[i] = 0 THEN 0
    ELSE 1

\* k low bits of m are cut off, q is what stays
FRoundCut(s, m, e, k, q) ==
    FRoundTie(s, e + k, q, BigCmpHalf(m, ((k - 1) \div 15) + 1, (k - 1) % 15))

\* m has L bits
FRoundBits(s, m, e, L) ==
    IF L <= 53
    THEN [s |-> s, m |-> BigShl(m, 53 - L), e |-> e - (53 - L)]
    ELSE FRoundCut(s, m, e, L - 53, BigShr(m, L - 53))

FRound(s, m, e) ==
    IF m = <<>> THEN FZero(s) ELSE FRoundBits(s, m, e, BigBitLen(m))

\* float(n) for a Python int n
FFromInt(n) ==
    FRound(IF n < 0 THEN 1 ELSE 0, BigFromInt(IF n < 0 THEN -n ELSE n), 0)

FNeg(x) == [x EXCEPT !.s = 1 - x.s]

FAbs(x) == [x EXCEPT !.s = 0]

FMul(x, y) == FRound((x.s + y.s) % 2, BigMul(x.m, y.m), x.e + y.e)

\* the mantissas at the common exponent emin; c compares them
FAddSigned(x, y, emin, mx, my, c) ==
    IF x.s = y.s THEN FRound(x.s, BigAdd(mx, my), emin)
    ELSE IF c = 0 THEN FZero(0)
    ELSE FRound(IF c = 1 THEN x.s ELSE y.s,
                IF c = 1 THEN BigSub(mx, my) ELSE BigSub(my, mx), emin)

FAddAligned(x, y, emin, mx, my) ==
    FAddSigned(x, y, emin, mx, my, BigCmp(mx, my))

FAddShift(x, y, emin) ==
    FAddAligned(x, y, emin, BigShl(x.m, x.e - emin), BigShl(y.m, y.e - emin))

FAdd(x, y) ==
    IF IsZero(x) /\ IsZero(y) THEN FZero(IF x.s = 1 /\ y.s = 1 THEN 1 ELSE 0)
    ELSE IF IsZero(x) THEN y
    ELSE IF IsZero(y) THEN x
    ELSE FAddShift(x, y, Min(x.e, y.e))

FSub(x, y) == FAdd(x, FNeg(y))

\* the first k bits after the binary point of rem / d (rem < d), as the number
\* q they spell, and the remainder left; the bits are computed in two halves
RECURSIVE DivBits(_, _, _)

\* one bit: r2 is twice the remainder
DivBit(r2, d) ==
    IF BigCmp(r2, d) >= 0
    THEN [q |-> <<1>>, rem |-> BigSub(r2, d)]
    ELSE [q |-> <<>>, rem |-> r2]

DivJoin(hi, lo, k) == [q |-> BigAdd(BigShl(hi.q, k), lo.q), rem |-> lo.rem]

DivLow(hi, d, k) == DivJoin(hi, DivBits(hi.rem, d, k), k)

DivBits(rem, d, k) ==
    IF k = 1 THEN DivBit(BigAdd(rem, rem), d)
    ELSE DivLow(DivBits(rem, d, k \div 2), d, k - (k \div 2))

\* the quotient bits q and whether a remainder is left: twice q with the
\* sticky bit is rounded
FDivSticky(s, e, q, rem) ==
    FRound(s, BigAddC(BigAdd(q, q), <<>>, IF rem = <<>> THEN 0 ELSE 1), e)

FDivQuotient(s, e, ge, dv) ==
    FDivSticky(s, e, IF ge THEN BigAdd(dv.q, BigShl(<<1>>, 56)) ELSE dv.q, dv.rem)

FDivMantissas(x, y, ge) ==
    FDivQuotient((x.s + y.s) % 2, x.e - y.e - 57, ge,
                 DivBits(IF ge THEN BigSub(x.m, y.m) ELSE x.m, y.m, 56))

\* x / y for y # 0: the quotient of the mantissas to 56 fractional bits and a
\* sticky bit for the remainder, rounded once
FDiv(x, y) ==
    IF IsZero(x) THEN FZero((x.s + y.s) % 2)
    ELSE FDivMantissas(x, y, BigCmp(x.m, y.m) >= 0)

\* int(x): truncation toward zero (the values truncated here fit an integer)
FTrunc(x) ==
    (IF x.s = 1 THEN -1 ELSE 1)
        * (IF x.e >= 0 THEN BigToInt(BigShl(x.m, x.e))
           ELSE BigToInt(BigShr(x.m, -x.e)))

\* x >= 0 (true of -0.0)
FGe0(x) == IsZero(x) \/ x.s = 0

\* x == y as Python compares floats (0.0 == -0.0)
FEq(x, y) == (IsZero(x) /\ IsZero(y)) \/ x = y

\* x < y
FLt(x, y) == ~IsZero(FSub(x, y)) /\ FSub(x, y).s = 1

\* x > 0
FGt0(x) == ~IsZero(x) /\ x.s = 0

\* (2 * r * Base + d) * d, what the square of r * Base grows by with the digit d
\* behind r; r2 = 2 * r
SqrtTrial(r2, d) == BigMulSmall(<<d>> \o r2, d)

\* the largest digit d behind r with SqrtTrial(r2, d) <= rem, bit by bit from
\* bit b down (the test of d has it computed before the lower bits are)
RECURSIVE SqrtDigit(_, _, _, _)
SqrtDigit(r2, rem, d, b) ==
    IF d >= 0 /\ b < 0 THEN d
    ELSE SqrtDigit(r2, rem,
                   IF BigCmp(SqrtTrial(r2, d + 2^b), rem) <= 0 THEN d + 2^b ELSE d,
                   b - 1)

\* the root with the digit d behind it, and what is left under it
SqrtChunk(r, r2, rem, d) ==
    [r |-> BigNorm(<<d>> \o r), rem |-> BigSub(rem, SqrtTrial(r2, d))]

\* r the root of the limbs of m taken so far, rem what they exceed its square
\* by with two more limbs of m taken
SqrtNext(r, r2, rem) == SqrtChunk(r, r2, rem, SqrtDigit(r2, rem, 0, 14))

\* floor(sqrt(m)) and what m exceeds its square by, two limbs of m for a limb
\* of the root, from the limbs 2 * c and 2 * c - 1 down (the test of Len has
\* acc computed before the lower limbs are)
RECURSIVE SqrtBits(_, _, _)
SqrtBits(m, acc, c) ==
    IF Len(acc.r) >= 0 /\ c = 0 THEN acc
    ELSE SqrtBits(m, SqrtNext(acc.r, BigShl(acc.r, 1),
                              BigNorm(<<m[2 * c - 1], IF 2 * c > Len(m) THEN 0 ELSE m[2 * c]>>
                                          \o acc.rem)),
                  c - 1)

\* twice the root with the sticky bit of an inexact root, rounded once
FSqrtSticky(acc, e) ==
    FRound(0, BigAddC(BigAdd(acc.r, acc.r), <<>>, IF acc.rem = <<>> THEN 0 ELSE 1), e)

\* the mantissa scaled to 111 or 112 bits at the even exponent e: a root of 56
\* bits
FSqrtScaled(m, e) ==
    FSqrtSticky(SqrtBits(m, [r |-> <<>>, rem |-> <<>>], (Len(m) + 1) \div 2),
                (e \div 2) - 1)

\* math.sqrt(x) for x >= 0: the correctly rounded root
FSqrt(x) ==
    IF IsZero(x) THEN x
    ELSE FSqrtScaled(BigShl(x.m, 58 + ((x.e - 58) % 2)),
                     x.e - (58 + ((x.e - 58) % 2)))

\* x ** 2 is pow(x, 2.0) of the C library (glibc 2.36, x86_64, the variant
\* for processors with fused multiply-add).  It is within one unit in the last
\* place of the square and not always the correctly rounded product, so it is
\* modelled as the library computes it: exp(2 * log|x|), the logarithm as a
\* pair hi + lo from a table of 128 intervals and a polynomial, the
\* exponential from a table of 2^(i/128) and a polynomial.  PowData holds the
\* library's constants, PowLogTable and PowExpTable its tables.

\* fma(a, b, c): a * b + c rounded once
FFma(a, b, c) ==
    IF IsZero(c) /\ ~IsZero(a) /\ ~IsZero(b) THEN FMul(a, b)
    ELSE FAdd([s |-> (a.s + b.s) % 2, m |-> BigMul(a.m, b.m),
               e |-> IF IsZero(a) \/ IsZero(b) THEN 0 ELSE a.e + b.e], c)

PowData ==
    [ln2hi |-> [s |-> 0, m |-> <<14336,32244,14603,177>>, e |-> -53],
     ln2lo |-> [s |-> 0, m |-> <<26416,10126,19806,247>>, e |-> -97],
     A |-> << [s |-> 1, m |-> <<0,0,0,128>>, e |-> -53],
            [s |-> 1, m |-> <<21856,10922,21845,170>>, e |-> -53],
            [s |-> 0, m |-> <<6,0,0,128>>, e |-> -53],
            [s |-> 0, m |-> <<21838,12978,26214,204>>, e |-> -53],
            [s |-> 1, m |-> <<9338,10835,21845,170>>, e |-> -53],
            [s |-> 1, m |-> <<17897,13968,9582,146>>, e |-> -52],
            [s |-> 0, m |-> <<16323,5708,174,128>>, e |-> -52] >>,
     invln2N |-> [s |-> 0, m |-> <<766,19031,21789,184>>, e |-> -45],
     shift |-> [s |-> 0, m |-> <<0,0,0,192>>, e |-> 0],
     negln2hiN |-> [s |-> 1, m |-> <<0,32244,14603,177>>, e |-> -60],
     negln2loN |-> [s |-> 1, m |-> <<15162,31036,24170,231>>, e |-> -99],
     C |-> << [s |-> 0, m |-> <<32189,32767,32767,255>>, e |-> -54],
            [s |-> 0, m |-> <<21564,10922,21845,170>>, e |-> -55],
            [s |-> 0, m |-> <<11153,7726,21847,170>>, e |-> -57],
            [s |-> 0, m |-> <<20503,20297,17477,136>>, e |-> -59] >>]

\* for the interval i of z: 1/c, log(c) and its tail, c near the centre
PowLogTable ==
    <<
      [invc |-> [s |-> 0, m |-> <<0,0,0,181>>, e |-> -52],
       logc |-> [s |-> 1, m |-> <<18432,25971,12811,177>>, e |-> -54],
       logctail |-> [s |-> 0, m |-> <<22144,20590,20624,213>>, e |-> -100]],
      [invc |-> [s |-> 0, m |-> <<0,0,0,180>>, e |-> -52],
       logc |-> [s |-> 1, m |-> <<2048,32432,18166,174>>, e |-> -54],
       logctail |-> [s |-> 1, m |-> <<30496,12737,5155,229>>, e |-> -98]],
      [invc |-> [s |-> 0, m |-> <<0,0,0,179>>, e |-> -52],
       logc |-> [s |-> 1, m |-> <<22528,11914,23004,171>>, e |-> -54],
       logctail |-> [s |-> 1, m |-> <<20589,11116,2707,155>>, e |-> -97]],
      [invc |-> [s |-> 0, m |-> <<0,0,0,178>>, e |-> -52],
       logc |-> [s |-> 1, m |-> <<30720,3675,27318,168>>, e |-> -54],
       logctail |-> [s |-> 1, m |-> <<26581,15712,5010,180>>, e |-> -101]],
      [invc |-> [s |-> 0, m |-> <<0,0,0,177>>, e |-> -52],
       logc |-> [s |-> 1, m |-> <<30720,10990,31102,165>>, e |-> -54],
       logctail |-> [s |-> 1, m |-> <<16096,9810,28070,160>>, e |-> -99]],
      [invc |-> [s |-> 0, m |-> <<0,0,0,176>>, e |-> -52],
       logc |-> [s |-> 1, m |-> <<24576,1080,1583,163>>, e |-> -54],
       logctail |-> [s |-> 0, m |-> <<1228,4249,24765,158>>, e |-> -98]],
      [invc |-> [s |-> 0, m |-> <<0,0,0,175>>, e |-> -52],
       logc |-> [s |-> 1, m |-> <<10240,3341,4290,160>>, e |-> -54],
       logctail |-> [s |-> 0, m |-> <<2874,23300,3023,226>>, e |-> -102]],
      [invc |-> [s |-> 0, m |-> <<0,0,0,174>>, e |-> -52],
       logc |-> [s |-> 1, m |-> <<18432,10962,6449,157>>, e |-> -54],
       logctail |-> [s |-> 0, m |-> <<5216,3235,18202,133>>, e |-> -97]],
      [invc |-> [s |-> 0, m |-> <<0,0,0,173>>, e |-> -52],
       logc |-> [s |-> 1, m |-> <<0,13617,8054,154>>, e |-> -54],
       logctail |-> [s |-> 0, m |-> <<146,10635,25911,170>>, e |-> -97]],
      [invc |-> [s |-> 0, m |-> <<0,0,0,172>>, e |-> -52],
       logc |-> [s |-> 1, m |-> <<8192,30146,9098,151>>, e |-> -54],
       logctail |-> [s |-> 0, m |-> <<11224,13166,27770,179>>, e |-> -97]],
      [invc |-> [s |-> 0, m |-> <<0,0,0,171>>, e |-> -52],
       logc |-> [s |-> 1, m |-> <<2048,10173,9576,148>>, e |-> -54],
       logctail |-> [s |-> 0, m |-> <<12351,28063,10322,174>>, e |-> -98]],
      [invc |-> [s |-> 0, m |-> <<0,0,0,171>>, e |-> -52],
       logc |-> [s |-> 1, m |-> <<2048,10173,9576,148>>, e |-> -54],
       logctail |-> [s |-> 0, m |-> <<12351,28063,10322,174>>, e |-> -98]],
      [invc |-> [s |-> 0, m |-> <<0,0,0,170>>, e |-> -52],
       logc |-> [s |-> 1, m |-> <<30720,30622,9479,145>>, e |-> -54],
       logctail |-> [s |-> 1, m |-> <<23158,20647,26768,178>>, e |-> -98]],
      [invc |-> [s |-> 0, m |-> <<0,0,0,169>>, e |-> -52],
       logc |-> [s |-> 1, m |-> <<6144,723,8803,142>>, e |-> -54],
       logctail |-> [s |-> 1, m |-> <<21508,20942,16113,253>>, e |-> -98]],
      [invc |-> [s |-> 0, m |-> <<0,0,0,168>>, e |-> -52],
       logc |-> [s |-> 1, m |-> <<10240,22359,7538,139>>, e |-> -54],
       logctail |-> [s |-> 0, m |-> <<10480,26373,32536,248>>, e |-> -98]],
      [invc |-> [s |-> 0, m |-> <<0,0,0,167>>, e |-> -52],
       logc |-> [s |-> 1, m |-> <<18432,29532,5679,136>>, e |-> -54],
       logctail |-> [s |-> 1, m |-> <<23142,31242,8979,181>>, e |-> -97]],
      [invc |-> [s |-> 0, m |-> <<0,0,0,166>>, e |-> -52],
       logc |-> [s |-> 1, m |-> <<4096,17639,3219,133>>, e |-> -54],
       logctail |-> [s |-> 1, m |-> <<782,32232,12217,227>>, e |-> -99]],
      [invc |-> [s |-> 0, m |-> <<0,0,0,165>>, e |-> -52],
       logc |-> [s |-> 1, m |-> <<20480,10601,150,130>>, e |-> -54],
       logctail |-> [s |-> 1, m |-> <<11647,15848,23266,129>>, e |-> -100]],
      [invc |-> [s |-> 0, m |-> <<0,0,0,165>>, e |-> -52],
       logc |-> [s |-> 1, m |-> <<20480,10601,150,130>>, e |-> -54],
       logctail |-> [s |-> 1, m |-> <<11647,15848,23266,129>>, e |-> -100]],
      [invc |-> [s |-> 0, m |-> <<0,0,0,164>>, e |-> -52],
       logc |-> [s |-> 1, m |-> <<16384,23228,25697,253>>, e |-> -55],
       logctail |-> [s |-> 0, m |-> <<15495,22322,23722,234>>, e |-> -99]],
      [invc |-> [s |-> 0, m |-> <<0,0,0,163>>, e |-> -52],
       logc |-> [s |-> 1, m |-> <<24576,6072,17079,247>>, e |-> -55],
       logctail |-> [s |-> 0, m |-> <<12068,14605,6878,217>>, e |-> -97]],
      [invc |-> [s |-> 0, m |-> <<0,0,0,162>>, e |-> -52],
       logc |-> [s |-> 1, m |-> <<28672,23637,7197,241>>, e |-> -55],
       logctail |-> [s |-> 1, m |-> <<32528,10367,15677,185>>, e |-> -98]],
      [invc |-> [s |-> 0, m |-> <<0,0,0,161>>, e |-> -52],
       logc |-> [s |-> 1, m |-> <<16384,22175,28805,234>>, e |-> -55],
       logctail |-> [s |-> 0, m |-> <<26651,30612,27206,141>>, e |-> -97]],
      [invc |-> [s |-> 0, m |-> <<0,0,0,160>>, e |-> -52],
       logc |-> [s |-> 1, m |-> <<8192,3893,16351,228>>, e |-> -55],
       logctail |-> [s |-> 0, m |-> <<1076,20799,25917,187>>, e |-> -97]],
      [invc |-> [s |-> 0, m |-> <<0,0,0,160>>, e |-> -52],
       logc |-> [s |-> 1, m |-> <<8192,3893,16351,228>>, e |-> -55],
       logctail |-> [s |-> 0, m |-> <<1076,20799,25917,187>>, e |-> -97]],
      [invc |-> [s |-> 0, m |-> <<0,0,0,159>>, e |-> -52],
       logc |-> [s |-> 1, m |-> <<4096,26715,2585,222>>, e |-> -55],
       logctail |-> [s |-> 0, m |-> <<14223,25367,15040,202>>, e |-> -98]],
      [invc |-> [s |-> 0, m |-> <<0,0,0,158>>, e |-> -52],
       logc |-> [s |-> 1, m |-> <<16384,7425,20261,215>>, e |-> -55],
       logctail |-> [s |-> 0, m |-> <<4198,32667,14732,210>>, e |-> -104]],
      [invc |-> [s |-> 0, m |-> <<0,0,0,157>>, e |-> -52],
       logc |-> [s |-> 1, m |-> <<12288,16325,3824,209>>, e |-> -55],
       logctail |-> [s |-> 1, m |-> <<16874,14477,12691,172>>, e |-> -97]],
      [invc |-> [s |-> 0, m |-> <<0,0,0,157>>, e |-> -52],
       logc |-> [s |-> 1, m |-> <<12288,16325,3824,209>>, e |-> -55],
       logctail |-> [s |-> 1, m |-> <<16874,14477,12691,172>>, e |-> -97]],
      [invc |-> [s |-> 0, m |-> <<0,0,0,156>>, e |-> -52],
       logc |-> [s |-> 1, m |-> <<20480,14824,18794,202>>, e |-> -55],
       logctail |-> [s |-> 1, m |-> <<21731,2435,18276,214>>, e |-> -97]],
      [invc |-> [s |-> 0, m |-> <<0,0,0,155>>, e |-> -52],
       logc |-> [s |-> 1, m |-> <<20480,19009,32385,195>>, e |-> -55],
       logctail |-> [s |-> 0, m |-> <<31241,32695,30461,221>>, e |-> -97]],
      [invc |-> [s |-> 0, m |-> <<0,0,0,154>>, e |-> -52],
       logc |-> [s |-> 1, m |-> <<24576,1057,11812,189>>, e |-> -55],
       logctail |-> [s |-> 0, m |-> <<19032,25766,28225,222>>, e |-> -97]],
      [invc |-> [s |-> 0, m |-> <<0,0,0,154>>, e |-> -52],
       logc |-> [s |-> 1, m |-> <<24576,1057,11812,189>>, e |-> -55],
       logctail |-> [s |-> 0, m |-> <<19032,25766,28225,222>>, e |-> -97]],
      [invc |-> [s |-> 0, m |-> <<0,0,0,153>>, e |-> -52],
       logc |-> [s |-> 1, m |-> <<20480,20019,22591,182>>, e |-> -55],
       logctail |-> [s |-> 1, m |-> <<25190,18277,4522,135>>, e |-> -98]],
      [invc |-> [s |-> 0, m |-> <<0,0,0,152>>, e |-> -52],
       logc |-> [s |-> 1, m |-> <<4096,24911,31937,175>>, e |-> -55],
       logctail |-> [s |-> 1, m |-> <<20537,15904,30990,244>>, e |-> -98]],
      [invc |-> [s |-> 0, m |-> <<0,0,0,152>>, e |-> -52],
       logc |-> [s |-> 1, m |-> <<4096,24911,31937,175>>, e |-> -55],
       logctail |-> [s |-> 1, m |-> <<20537,15904,30990,244>>, e |-> -98]],
      [invc |-> [s |-> 0, m |-> <<0,0,0,151>>, e |-> -52],
       logc |-> [s |-> 1, m |-> <<12288,18243,7063,169>>, e |-> -55],
       logctail |-> [s |-> 1, m |-> <<23439,8206,31278,134>>, e |-> -97]],
      [invc |-> [s |-> 0, m |-> <<0,0,0,150>>, e |-> -52],
       logc |-> [s |-> 1, m |-> <<0,22935,13485,162>>, e |-> -55],
       logctail |-> [s |-> 0, m |-> <<30780,17002,13061,184>>, e |-> -98]],
      [invc |-> [s |-> 0, m |-> <<0,0,0,150>>, e |-> -52],
       logc |-> [s |-> 1, m |-> <<0,22935,13485,162>>, e |-> -55],
       logctail |-> [s |-> 0, m |-> <<30780,17002,13061,184>>, e |-> -98]],
      [invc |-> [s |-> 0, m |-> <<0,0,0,149>>, e |-> -52],
       logc |-> [s |-> 1, m |-> <<4096,16445,18416,155>>, e |-> -55],
       logctail |-> [s |-> 0, m |-> <<21562,6734,25113,139>>, e |-> -100]],
      [invc |-> [s |-> 0, m |-> <<0,0,0,148>>, e |-> -52],
       logc |-> [s |-> 1, m |-> <<28672,28735,21835,148>>, e |-> -55],
       logctail |-> [s |-> 1, m |-> <<17416,12003,13504,164>>, e |-> -97]],
      [invc |-> [s |-> 0, m |-> <<0,0,0,147>>, e |-> -52],
       logc |-> [s |-> 1, m |-> <<24576,10846,23723,141>>, e |-> -55],
       logctail |-> [s |-> 1, m |-> <<9110,12323,656,244>>, e |-> -97]],
      [invc |-> [s |-> 0, m |-> <<0,0,0,147>>, e |-> -52],
       logc |-> [s |-> 1, m |-> <<24576,10846,23723,141>>, e |-> -55],
       logctail |-> [s |-> 1, m |-> <<9110,12323,656,244>>, e |-> -97]],
      [invc |-> [s |-> 0, m |-> <<0,0,0,146>>, e |-> -52],
       logc |-> [s |-> 1, m |-> <<4096,31137,24057,134>>, e |-> -55],
       logctail |-> [s |-> 0, m |-> <<23540,4560,9818,211>>, e |-> -99]],
      [invc |-> [s |-> 0, m |-> <<0,0,0,146>>, e |-> -52],
       logc |-> [s |-> 1, m |-> <<4096,31137,24057,134>>, e |-> -55],
       logctail |-> [s |-> 0, m |-> <<23540,4560,9818,211>>, e |-> -99]],
      [invc |-> [s |-> 0, m |-> <<0,0,0,145>>, e |-> -52],
       logc |-> [s |-> 1, m |-> <<24576,25527,12868,255>>, e |-> -56],
       logctail |-> [s |-> 1, m |-> <<13298,14662,21841,171>>, e |-> -97]],
      [invc |-> [s |-> 0, m |-> <<0,0,0,144>>, e |-> -52],
       logc |-> [s |-> 1, m |-> <<0,23638,7197,241>>, e |-> -56],
       logctail |-> [s |-> 0, m |-> <<60,21984,20656,209>>, e |-> -97]],
      [invc |-> [s |-> 0, m |-> <<0,0,0,144>>, e |-> -52],
       logc |-> [s |-> 1, m |-> <<0,23638,7197,241>>, e |-> -56],
       logctail |-> [s |-> 0, m |-> <<60,21984,20656,209>>, e |-> -97]],
      [invc |-> [s |-> 0, m |-> <<0,0,0,143>>, e |-> -52],
       logc |-> [s |-> 1, m |-> <<16384,7863,31058,226>>, e |-> -56],
       logctail |-> [s |-> 1, m |-> <<15878,12479,12637,232>>, e |-> -98]],
      [invc |-> [s |-> 0, m |-> <<0,0,0,142>>, e |-> -52],
       logc |-> [s |-> 1, m |-> <<24576,29845,18868,212>>, e |-> -56],
       logctail |-> [s |-> 0, m |-> <<10952,20663,25815,169>>, e |-> -97]],
      [invc |-> [s |-> 0, m |-> <<0,0,0,142>>, e |-> -52],
       logc |-> [s |-> 1, m |-> <<24576,29845,18868,212>>, e |-> -56],
       logctail |-> [s |-> 0, m |-> <<10952,20663,25815,169>>, e |-> -97]],
      [invc |-> [s |-> 0, m |-> <<0,0,0,141>>, e |-> -52],
       logc |-> [s |-> 1, m |-> <<8192,11363,3351,198>>, e |-> -56],
       logctail |-> [s |-> 0, m |-> <<22120,6750,28837,155>>, e |-> -98]],
      [invc |-> [s |-> 0, m |-> <<0,0,0,141>>, e |-> -52],
       logc |-> [s |-> 1, m |-> <<8192,11363,3351,198>>, e |-> -56],
       logctail |-> [s |-> 0, m |-> <<22120,6750,28837,155>>, e |-> -98]],
      [invc |-> [s |-> 0, m |-> <<0,0,0,140>>, e |-> -52],
       logc |-> [s |-> 1, m |-> <<24576,5578,17226,183>>, e |-> -56],
       logctail |-> [s |-> 1, m |-> <<29658,4710,23775,180>>, e |-> -97]],
      [invc |-> [s |-> 0, m |-> <<0,0,0,139>>, e |-> -52],
       logc |-> [s |-> 1, m |-> <<8192,32268,27676,168>>, e |-> -56],
       logctail |-> [s |-> 0, m |-> <<24151,17292,2413,248>>, e |-> -98]],
      [invc |-> [s |-> 0, m |-> <<0,0,0,139>>, e |-> -52],
       logc |-> [s |-> 1, m |-> <<8192,32268,27676,168>>, e |-> -56],
       logctail |-> [s |-> 0, m |-> <<24151,17292,2413,248>>, e |-> -98]],
      [invc |-> [s |-> 0, m |-> <<0,0,0,138>>, e |-> -52],
       logc |-> [s |-> 1, m |-> <<24576,11319,1886,154>>, e |-> -56],
       logctail |-> [s |-> 0, m |-> <<5087,6642,31595,226>>, e |-> -97]],
      [invc |-> [s |-> 0, m |-> <<0,0,0,138>>, e |-> -52],
       logc |-> [s |-> 1, m |-> <<24576,11319,1886,154>>, e |-> -56],
       logctail |-> [s |-> 0, m |-> <<5087,6642,31595,226>>, e |-> -97]],
      [invc |-> [s |-> 0, m |-> <<0,0,0,137>>, e |-> -52],
       logc |-> [s |-> 1, m |-> <<0,23879,5339,139>>, e |-> -56],
       logctail |-> [s |-> 0, m |-> <<8969,27935,29049,163>>, e |-> -98]],
      [invc |-> [s |-> 0, m |-> <<0,0,0,136>>, e |-> -52],
       logc |-> [s |-> 1, m |-> <<0,35,10435,248>>, e |-> -57],
       logctail |-> [s |-> 0, m |-> <<3729,1645,26234,234>>, e |-> -97]],
      [invc |-> [s |-> 0, m |-> <<0,0,0,136>>, e |-> -52],
       logc |-> [s |-> 1, m |-> <<0,35,10435,248>>, e |-> -57],
       logctail |-> [s |-> 0, m |-> <<3729,1645,26234,234>>, e |-> -97]],
      [invc |-> [s |-> 0, m |-> <<0,0,0,135>>, e |-> -52],
       logc |-> [s |-> 1, m |-> <<0,25139,2933,218>>, e |-> -57],
       logctail |-> [s |-> 0, m |-> <<28748,19372,2539,228>>, e |-> -98]],
      [invc |-> [s |-> 0, m |-> <<0,0,0,135>>, e |-> -52],
       logc |-> [s |-> 1, m |-> <<0,25139,2933,218>>, e |-> -57],
       logctail |-> [s |-> 0, m |-> <<28748,19372,2539,228>>, e |-> -98]],
      [invc |-> [s |-> 0, m |-> <<0,0,0,134>>, e |-> -52],
       logc |-> [s |-> 1, m |-> <<16384,27749,20835,187>>, e |-> -57],
       logctail |-> [s |-> 1, m |-> <<8686,27109,28952,231>>, e |-> -97]],
      [invc |-> [s |-> 0, m |-> <<0,0,0,134>>, e |-> -52],
       logc |-> [s |-> 1, m |-> <<16384,27749,20835,187>>, e |-> -57],
       logctail |-> [s |-> 1, m |-> <<8686,27109,28952,231>>, e |-> -97]],
      [invc |-> [s |-> 0, m |-> <<0,0,0,133>>, e |-> -52],
       logc |-> [s |-> 1, m |-> <<16384,29693,31262,156>>, e |-> -57],
       logctail |-> [s |-> 0, m |-> <<32426,27213,2783,168>>, e |-> -100]],
      [invc |-> [s |-> 0, m |-> <<0,0,0,133>>, e |-> -52],
       logc |-> [s |-> 1, m |-> <<16384,29693,31262,156>>, e |-> -57],
       logctail |-> [s |-> 0, m |-> <<32426,27213,2783,168>>, e |-> -100]],
      [invc |-> [s |-> 0, m |-> <<0,0,0,132>>, e |-> -52],
       logc |-> [s |-> 1, m |-> <<0,7408,2668,252>>, e |-> -58],
       logctail |-> [s |-> 1, m |-> <<2532,30972,153,204>>, e |-> -97]],
      [invc |-> [s |-> 0, m |-> <<0,0,0,132>>, e |-> -52],
       logc |-> [s |-> 1, m |-> <<0,7408,2668,252>>, e |-> -58],
       logctail |-> [s |-> 1, m |-> <<2532,30972,153,204>>, e |-> -97]],
      [invc |-> [s |-> 0, m |-> <<0,0,0,131>>, e |-> -52],
       logc |-> [s |-> 1, m |-> <<0,4011,25708,189>>, e |-> -58],
       logctail |-> [s |-> 1, m |-> <<9785,10229,13650,196>>, e |-> -97]],
      [invc |-> [s |-> 0, m |-> <<0,0,0,130>>, e |-> -52],
       logc |-> [s |-> 1, m |-> <<0,25080,674,254>>, e |-> -59],
       logctail |-> [s |-> 1, m |-> <<9884,28071,31219,248>>, e |-> -102]],
      [invc |-> [s |-> 0, m |-> <<0,0,0,130>>, e |-> -52],
       logc |-> [s |-> 1, m |-> <<0,25080,674,254>>, e |-> -59],
       logctail |-> [s |-> 1, m |-> <<9884,28071,31219,248>>, e |-> -102]],
      [invc |-> [s |-> 0, m |-> <<0,0,0,129>>, e |-> -52],
       logc |-> [s |-> 1, m |-> <<0,22048,169,255>>, e |-> -60],
       logctail |-> [s |-> 1, m |-> <<16612,7092,2300,207>>, e |-> -98]],
      [invc |-> [s |-> 0, m |-> <<0,0,0,129>>, e |-> -52],
       logc |-> [s |-> 1, m |-> <<0,22048,169,255>>, e |-> -60],
       logctail |-> [s |-> 1, m |-> <<16612,7092,2300,207>>, e |-> -98]],
      [invc |-> [s |-> 0, m |-> <<0,0,0,128>>, e |-> -52],
       logc |-> [s |-> 0, m |-> <<>>, e |-> 0],
       logctail |-> [s |-> 0, m |-> <<>>, e |-> 0]],
      [invc |-> [s |-> 0, m |-> <<0,0,0,128>>, e |-> -52],
       logc |-> [s |-> 0, m |-> <<>>, e |-> 0],
       logctail |-> [s |-> 0, m |-> <<>>, e |-> 0]],
      [invc |-> [s |-> 0, m |-> <<0,0,0,254>>, e |-> -53],
       logc |-> [s |-> 0, m |-> <<0,27410,16469,128>>, e |-> -59],
       logctail |-> [s |-> 1, m |-> <<11240,13114,7598,134>>, e |-> -98]],
      [invc |-> [s |-> 0, m |-> <<0,0,0,252>>, e |-> -53],
       logc |-> [s |-> 0, m |-> <<0,12583,345,129>>, e |-> -58],
       logctail |-> [s |-> 1, m |-> <<30674,3525,29036,158>>, e |-> -97]],
      [invc |-> [s |-> 0, m |-> <<0,0,0,250>>, e |-> -53],
       logc |-> [s |-> 0, m |-> <<0,20882,9364,194>>, e |-> -58],
       logctail |-> [s |-> 1, m |-> <<3124,25780,744,213>>, e |-> -97]],
      [invc |-> [s |-> 0, m |-> <<0,0,0,248>>, e |-> -53],
       logc |-> [s |-> 0, m |-> <<16384,5070,1398,130>>, e |-> -57],
       logctail |-> [s |-> 0, m |-> <<22355,14819,18177,136>>, e |-> -99]],
      [invc |-> [s |-> 0, m |-> <<0,0,0,246>>, e |-> -53],
       logc |-> [s |-> 0, m |-> <<0,10332,6843,163>>, e |-> -57],
       logctail |-> [s |-> 1, m |-> <<32040,27515,22989,224>>, e |-> -97]],
      [invc |-> [s |-> 0, m |-> <<0,0,0,244>>, e |-> -53],
       logc |-> [s |-> 0, m |-> <<16384,10559,21160,196>>, e |-> -57],
       logctail |-> [s |-> 1, m |-> <<9853,8372,26199,203>>, e |-> -98]],
      [invc |-> [s |-> 0, m |-> <<0,0,0,242>>, e |-> -53],
       logc |-> [s |-> 0, m |-> <<16384,7099,11727,230>>, e |-> -57],
       logctail |-> [s |-> 1, m |-> <<10247,4016,9161,211>>, e |-> -98]],
      [invc |-> [s |-> 0, m |-> <<0,0,0,241>>, e |-> -53],
       logc |-> [s |-> 0, m |-> <<16384,13,10439,247>>, e |-> -57],
       logctail |-> [s |-> 1, m |-> <<15227,8082,17657,240>>, e |-> -99]],
      [invc |-> [s |-> 0, m |-> <<0,0,0,239>>, e |-> -53],
       logc |-> [s |-> 0, m |-> <<24576,8844,23791,140>>, e |-> -56],
       logctail |-> [s |-> 1, m |-> <<7835,11291,18805,169>>, e |-> -97]],
      [invc |-> [s |-> 0, m |-> <<0,0,0,237>>, e |-> -53],
       logc |-> [s |-> 0, m |-> <<24576,20387,30678,157>>, e |-> -56],
       logctail |-> [s |-> 0, m |-> <<20183,19382,8570,230>>, e |-> -97]],
      [invc |-> [s |-> 0, m |-> <<0,0,0,235>>, e |-> -53],
       logc |-> [s |-> 0, m |-> <<8192,6959,9577,175>>, e |-> -56],
       logctail |-> [s |-> 1, m |-> <<7454,30906,9240,227>>, e |-> -97]],
      [invc |-> [s |-> 0, m |-> <<0,0,0,234>>, e |-> -53],
       logc |-> [s |-> 0, m |-> <<16384,5589,844,184>>, e |-> -56],
       logctail |-> [s |-> 0, m |-> <<27954,21307,31286,224>>, e |-> -101]],
      [invc |-> [s |-> 0, m |-> <<0,0,0,232>>, e |-> -53],
       logc |-> [s |-> 0, m |-> <<16384,15026,19833,201>>, e |-> -56],
       logctail |-> [s |-> 0, m |-> <<18394,30074,17776,152>>, e |-> -97]],
      [invc |-> [s |-> 0, m |-> <<0,0,0,230>>, e |-> -53],
       logc |-> [s |-> 0, m |-> <<24576,7002,11042,219>>, e |-> -56],
       logctail |-> [s |-> 1, m |-> <<26853,22510,16896,156>>, e |-> -98]],
      [invc |-> [s |-> 0, m |-> <<0,0,0,229>>, e |-> -53],
       logc |-> [s |-> 0, m |-> <<16384,888,8544,228>>, e |-> -56],
       logctail |-> [s |-> 0, m |-> <<11475,3253,6983,178>>, e |-> -97]],
      [invc |-> [s |-> 0, m |-> <<0,0,0,227>>, e |-> -53],
       logc |-> [s |-> 0, m |-> <<8192,1556,7398,246>>, e |-> -56],
       logctail |-> [s |-> 1, m |-> <<17888,24524,418,238>>, e |-> -97]],
      [invc |-> [s |-> 0, m |-> <<0,0,0,226>>, e |-> -53],
       logc |-> [s |-> 0, m |-> <<24576,29623,8772,255>>, e |-> -56],
       logctail |-> [s |-> 1, m |-> <<2813,8002,21337,169>>, e |-> -97]],
      [invc |-> [s |-> 0, m |-> <<0,0,0,224>>, e |-> -53],
       logc |-> [s |-> 0, m |-> <<24576,1103,24122,136>>, e |-> -55],
       logctail |-> [s |-> 0, m |-> <<2034,7258,15843,143>>, e |-> -97]],
      [invc |-> [s |-> 0, m |-> <<0,0,0,223>>, e |-> -53],
       logc |-> [s |-> 0, m |-> <<28672,31815,10413,141>>, e |-> -55],
       logctail |-> [s |-> 0, m |-> <<6452,2161,7737,229>>, e |-> -97]],
      [invc |-> [s |-> 0, m |-> <<0,0,0,221>>, e |-> -53],
       logc |-> [s |-> 0, m |-> <<0,6413,17796,150>>, e |-> -55],
       logctail |-> [s |-> 0, m |-> <<13473,5891,30131,156>>, e |-> -99]],
      [invc |-> [s |-> 0, m |-> <<0,0,0,220>>, e |-> -53],
       logc |-> [s |-> 0, m |-> <<4096,24619,6130,155>>, e |-> -55],
       logctail |-> [s |-> 0, m |-> <<29321,18070,16032,177>>, e |-> -103]],
      [invc |-> [s |-> 0, m |-> <<0,0,0,218>>, e |-> -53],
       logc |-> [s |-> 0, m |-> <<12288,1639,17654,164>>, e |-> -55],
       logctail |-> [s |-> 0, m |-> <<13944,10747,3557,172>>, e |-> -97]],
      [invc |-> [s |-> 0, m |-> <<0,0,0,217>>, e |-> -53],
       logc |-> [s |-> 0, m |-> <<12288,18755,8087,169>>, e |-> -55],
       logctail |-> [s |-> 0, m |-> <<32199,19154,20387,177>>, e |-> -97]],
      [invc |-> [s |-> 0, m |-> <<0,0,0,215>>, e |-> -53],
       logc |-> [s |-> 0, m |-> <<4096,32024,23866,178>>, e |-> -55],
       logctail |-> [s |-> 0, m |-> <<11896,22648,15916,206>>, e |-> -98]],
      [invc |-> [s |-> 0, m |-> <<0,0,0,214>>, e |-> -53],
       logc |-> [s |-> 0, m |-> <<28672,5866,16458,183>>, e |-> -55],
       logctail |-> [s |-> 1, m |-> <<8673,19256,17975,168>>, e |-> -97]],
      [invc |-> [s |-> 0, m |-> <<0,0,0,213>>, e |-> -53],
       logc |-> [s |-> 0, m |-> <<20480,2696,9782,188>>, e |-> -55],
       logctail |-> [s |-> 1, m |-> <<17157,24866,6209,227>>, e |-> -98]],
      [invc |-> [s |-> 0, m |-> <<0,0,0,211>>, e |-> -53],
       logc |-> [s |-> 0, m |-> <<0,22130,31423,197>>, e |-> -55],
       logctail |-> [s |-> 1, m |-> <<11473,21970,30034,185>>, e |-> -99]],
      [invc |-> [s |-> 0, m |-> <<0,0,0,210>>, e |-> -53],
       logc |-> [s |-> 0, m |-> <<0,14830,26987,202>>, e |-> -55],
       logctail |-> [s |-> 0, m |-> <<32623,12609,18593,191>>, e |-> -99]],
      [invc |-> [s |-> 0, m |-> <<0,0,0,208>>, e |-> -53],
       logc |-> [s |-> 0, m |-> <<24576,30997,20404,212>>, e |-> -55],
       logctail |-> [s |-> 1, m |-> <<8553,8364,18701,195>>, e |-> -97]],
      [invc |-> [s |-> 0, m |-> <<0,0,0,207>>, e |-> -53],
       logc |-> [s |-> 0, m |-> <<20480,11959,18273,217>>, e |-> -55],
       logctail |-> [s |-> 1, m |-> <<25002,7513,22069,225>>, e |-> -99]],
      [invc |-> [s |-> 0, m |-> <<0,0,0,206>>, e |-> -53],
       logc |-> [s |-> 0, m |-> <<24576,28791,16924,222>>, e |-> -55],
       logctail |-> [s |-> 1, m |-> <<4790,12968,12049,234>>, e |-> -97]],
      [invc |-> [s |-> 0, m |-> <<0,0,0,205>>, e |-> -53],
       logc |-> [s |-> 0, m |-> <<4096,3552,16367,227>>, e |-> -55],
       logctail |-> [s |-> 1, m |-> <<11218,2860,12747,143>>, e |-> -100]],
      [invc |-> [s |-> 0, m |-> <<0,0,0,203>>, e |-> -53],
       logc |-> [s |-> 0, m |-> <<4096,25001,17654,237>>, e |-> -55],
       logctail |-> [s |-> 1, m |-> <<12341,28203,31915,215>>, e |-> -97]],
      [invc |-> [s |-> 0, m |-> <<0,0,0,202>>, e |-> -53],
       logc |-> [s |-> 0, m |-> <<4096,32718,19515,242>>, e |-> -55],
       logctail |-> [s |-> 0, m |-> <<29744,16515,18589,144>>, e |-> -103]],
      [invc |-> [s |-> 0, m |-> <<0,0,0,201>>, e |-> -53],
       logc |-> [s |-> 0, m |-> <<0,18874,22199,247>>, e |-> -55],
       logctail |-> [s |-> 1, m |-> <<3601,19319,1109,209>>, e |-> -103]],
      [invc |-> [s |-> 0, m |-> <<0,0,0,200>>, e |-> -53],
       logc |-> [s |-> 0, m |-> <<12288,22887,25713,252>>, e |-> -55],
       logctail |-> [s |-> 0, m |-> <<24368,5145,12211,222>>, e |-> -98]],
      [invc |-> [s |-> 0, m |-> <<0,0,0,198>>, e |-> -53],
       logc |-> [s |-> 0, m |-> <<22528,16538,17633,131>>, e |-> -54],
       logctail |-> [s |-> 0, m |-> <<20113,11738,29548,196>>, e |-> -100]],
      [invc |-> [s |-> 0, m |-> <<0,0,0,197>>, e |-> -53],
       logc |-> [s |-> 0, m |-> <<24576,20162,4277,134>>, e |-> -54],
       logctail |-> [s |-> 0, m |-> <<27369,11385,25132,184>>, e |-> -97]],
      [invc |-> [s |-> 0, m |-> <<0,0,0,196>>, e |-> -53],
       logc |-> [s |-> 0, m |-> <<26624,1103,24122,136>>, e |-> -54],
       logctail |-> [s |-> 1, m |-> <<28700,18251,1081,225>>, e |-> -97]],
      [invc |-> [s |-> 0, m |-> <<0,0,0,195>>, e |-> -53],
       logc |-> [s |-> 0, m |-> <<30720,5977,11635,139>>, e |-> -54],
       logctail |-> [s |-> 0, m |-> <<5761,28490,27447,220>>, e |-> -97]],
      [invc |-> [s |-> 0, m |-> <<0,0,0,194>>, e |-> -53],
       logc |-> [s |-> 0, m |-> <<26624,18100,32357,141>>, e |-> -54],
       logctail |-> [s |-> 0, m |-> <<15799,8847,7093,229>>, e |-> -97]],
      [invc |-> [s |-> 0, m |-> <<0,0,0,193>>, e |-> -53],
       logc |-> [s |-> 0, m |-> <<14336,23069,20757,144>>, e |-> -54],
       logctail |-> [s |-> 0, m |-> <<15082,29837,8058,212>>, e |-> -99]],
      [invc |-> [s |-> 0, m |-> <<0,0,0,191>>, e |-> -53],
       logc |-> [s |-> 0, m |-> <<4096,31161,31681,149>>, e |-> -54],
       logctail |-> [s |-> 0, m |-> <<1268,5280,29673,212>>, e |-> -97]],
      [invc |-> [s |-> 0, m |-> <<0,0,0,190>>, e |-> -53],
       logc |-> [s |-> 0, m |-> <<24576,17318,21447,152>>, e |-> -54],
       logctail |-> [s |-> 1, m |-> <<15544,9794,2539,199>>, e |-> -97]],
      [invc |-> [s |-> 0, m |-> <<0,0,0,189>>, e |-> -53],
       logc |-> [s |-> 0, m |-> <<4096,28028,11677,155>>, e |-> -54],
       logctail |-> [s |-> 0, m |-> <<30664,25058,15158,139>>, e |-> -98]],
      [invc |-> [s |-> 0, m |-> <<0,0,0,188>>, e |-> -53],
       logc |-> [s |-> 0, m |-> <<12288,28262,2377,158>>, e |-> -54],
       logctail |-> [s |-> 0, m |-> <<15708,27661,27986,193>>, e |-> -98]],
      [invc |-> [s |-> 0, m |-> <<0,0,0,187>>, e |-> -53],
       logc |-> [s |-> 0, m |-> <<26624,18347,26320,160>>, e |-> -54],
       logctail |-> [s |-> 0, m |-> <<24733,22817,4315,199>>, e |-> -99]],
      [invc |-> [s |-> 0, m |-> <<0,0,0,186>>, e |-> -53],
       logc |-> [s |-> 0, m |-> <<18432,1251,17975,163>>, e |-> -54],
       logctail |-> [s |-> 1, m |-> <<22133,4815,7992,249>>, e |-> -97]],
      [invc |-> [s |-> 0, m |-> <<0,0,0,185>>, e |-> -53],
       logc |-> [s |-> 0, m |-> <<12288,15406,10114,166>>, e |-> -54],
       logctail |-> [s |-> 1, m |-> <<22692,13845,548,241>>, e |-> -97]],
      [invc |-> [s |-> 0, m |-> <<0,0,0,184>>, e |-> -53],
       logc |-> [s |-> 0, m |-> <<8192,3697,2744,169>>, e |-> -54],
       logctail |-> [s |-> 0, m |-> <<18265,713,31170,245>>, e |-> -97]],
      [invc |-> [s |-> 0, m |-> <<0,0,0,183>>, e |-> -53],
       logc |-> [s |-> 0, m |-> <<20480,10129,28637,171>>, e |-> -54],
       logctail |-> [s |-> 0, m |-> <<16623,23738,14263,253>>, e |-> -98]],
      [invc |-> [s |-> 0, m |-> <<0,0,0,182>>, e |-> -53],
       logc |-> [s |-> 0, m |-> <<24576,16050,22263,174>>, e |-> -54],
       logctail |-> [s |-> 1, m |-> <<26076,4424,11432,208>>, e |-> -99]]
    >>

\* for i in 0..127: 2^(i/128) as scale, and what it lacks as tail
PowExpTable ==
    <<
      [tail |-> [s |-> 0, m |-> <<>>, e |-> 0],
       scale |-> [s |-> 0, m |-> <<0,0,0,128>>, e |-> -52]],
      [tail |-> [s |-> 0, m |-> <<16238,13585,27964,217>>, e |-> -106],
       scale |-> [s |-> 0, m |-> <<13109,21494,22774,128>>, e |-> -52]],
      [tail |-> [s |-> 1, m |-> <<23645,14769,78,139>>, e |-> -108],
       scale |-> [s |-> 0, m |-> <<97,31983,12904,129>>, e |-> -52]],
      [tail |-> [s |-> 1, m |-> <<26321,8462,31208,130>>, e |-> -106],
       scale |-> [s |-> 0, m |-> <<32645,20700,3159,130>>, e |-> -52]],
      [tail |-> [s |-> 0, m |-> <<30227,27343,18760,230>>, e |-> -107],
       scale |-> [s |-> 0, m |-> <<1396,9771,26307,130>>, e |-> -52]],
      [tail |-> [s |-> 1, m |-> <<3834,18419,14848,222>>, e |-> -107],
       scale |-> [s |-> 0, m |-> <<30430,21435,16812,131>>, e |-> -52]],
      [tail |-> [s |-> 0, m |-> <<18529,17357,23865,135>>, e |-> -109],
       scale |-> [s |-> 0, m |-> <<7112,12523,7444,132>>, e |-> -52]],
      [tail |-> [s |-> 0, m |-> <<21401,13927,3985,133>>, e |-> -106],
       scale |-> [s |-> 0, m |-> <<29571,5517,30971,132>>, e |-> -52]],
      [tail |-> [s |-> 0, m |-> <<31597,15110,27289,188>>, e |-> -106],
       scale |-> [s |-> 0, m |-> <<2319,23027,21857,133>>, e |-> -52]],
      [tail |-> [s |-> 0, m |-> <<28668,9723,21610,245>>, e |-> -107],
       scale |-> [s |-> 0, m |-> <<18423,22244,12872,134>>, e |-> -52]],
      [tail |-> [s |-> 0, m |-> <<7377,24671,30965,245>>, e |-> -112],
       scale |-> [s |-> 0, m |-> <<20898,26023,4016,135>>, e |-> -52]],
      [tail |-> [s |-> 1, m |-> <<28171,4896,3282,208>>, e |-> -109],
       scale |-> [s |-> 0, m |-> <<21275,24573,28058,135>>, e |-> -52]],
      [tail |-> [s |-> 1, m |-> <<15630,21599,22856,170>>, e |-> -106],
       scale |-> [s |-> 0, m |-> <<23377,8228,19463,136>>, e |-> -52]],
      [tail |-> [s |-> 1, m |-> <<27221,6301,958,132>>, e |-> -110],
       scale |-> [s |-> 0, m |-> <<12748,216,10999,137>>, e |-> -52]],
      [tail |-> [s |-> 1, m |-> <<29718,29611,9358,142>>, e |-> -106],
       scale |-> [s |-> 0, m |-> <<11744,23890,2666,138>>, e |-> -52]],
      [tail |-> [s |-> 0, m |-> <<21935,21176,20367,134>>, e |-> -107],
       scale |-> [s |-> 0, m |-> <<3665,4427,27235,138>>, e |-> -52]],
      [tail |-> [s |-> 1, m |-> <<4936,21835,27735,128>>, e |-> -107],
       scale |-> [s |-> 0, m |-> <<20859,30970,19168,139>>, e |-> -52]],
      [tail |-> [s |-> 1, m |-> <<12861,11196,32705,248>>, e |-> -107],
       scale |-> [s |-> 0, m |-> <<3562,28953,11236,140>>, e |-> -52]],
      [tail |-> [s |-> 0, m |-> <<21439,32294,9776,220>>, e |-> -107],
       scale |-> [s |-> 0, m |-> <<19317,22239,3439,141>>, e |-> -52]],
      [tail |-> [s |-> 1, m |-> <<27430,27683,26225,182>>, e |-> -106],
       scale |-> [s |-> 0, m |-> <<23764,2056,28546,141>>, e |-> -52]],
      [tail |-> [s |-> 0, m |-> <<12128,31860,13276,215>>, e |-> -106],
       scale |-> [s |-> 0, m |-> <<14762,25297,21020,142>>, e |-> -52]],
      [tail |-> [s |-> 1, m |-> <<14493,5900,7691,255>>, e |-> -107],
       scale |-> [s |-> 0, m |-> <<22813,17913,13632,143>>, e |-> -52]],
      [tail |-> [s |-> 0, m |-> <<17293,2381,15621,211>>, e |-> -107],
       scale |-> [s |-> 0, m |-> <<3286,4293,6382,144>>, e |-> -52]],
      [tail |-> [s |-> 0, m |-> <<1149,25032,26646,131>>, e |-> -107],
       scale |-> [s |-> 0, m |-> <<23702,8955,32038,144>>, e |-> -52]],
      [tail |-> [s |-> 0, m |-> <<10388,18257,15351,180>>, e |-> -106],
       scale |-> [s |-> 0, m |-> <<25144,23786,25065,145>>, e |-> -52]],
      [tail |-> [s |-> 0, m |-> <<18557,25832,30819,186>>, e |-> -107],
       scale |-> [s |-> 0, m |-> <<9791,8037,18233,146>>, e |-> -52]],
      [tail |-> [s |-> 0, m |-> <<26610,12351,7342,130>>, e |-> -107],
       scale |-> [s |-> 0, m |-> <<31965,19396,11541,147>>, e |-> -52]],
      [tail |-> [s |-> 1, m |-> <<2142,32482,25068,181>>, e |-> -106],
       scale |-> [s |-> 0, m |-> <<25473,17386,4991,148>>, e |-> -52]],
      [tail |-> [s |-> 0, m |-> <<11057,23059,24453,151>>, e |-> -107],
       scale |-> [s |-> 0, m |-> <<24289,27199,31351,148>>, e |-> -52]],
      [tail |-> [s |-> 1, m |-> <<16378,13535,1644,233>>, e |-> -112],
       scale |-> [s |-> 0, m |-> <<22928,8629,25087,149>>, e |-> -52]],
      [tail |-> [s |-> 0, m |-> <<2740,25624,24073,217>>, e |-> -107],
       scale |-> [s |-> 0, m |-> <<779,19912,18966,150>>, e |-> -52]],
      [tail |-> [s |-> 0, m |-> <<19343,5021,21066,240>>, e |-> -109],
       scale |-> [s |-> 0, m |-> <<12118,21116,12990,151>>, e |-> -52]],
      [tail |-> [s |-> 0, m |-> <<11190,7009,13781,154>>, e |-> -107],
       scale |-> [s |-> 0, m |-> <<14101,5219,7160,152>>, e |-> -52]],
      [tail |-> [s |-> 0, m |-> <<29772,17752,2055,178>>, e |-> -107],
       scale |-> [s |-> 0, m |-> <<22577,30873,1475,153>>, e |-> -52]],
      [tail |-> [s |-> 0, m |-> <<30794,15271,29925,254>>, e |-> -107],
       scale |-> [s |-> 0, m |-> <<5887,25800,28706,153>>, e |-> -52]],
      [tail |-> [s |-> 1, m |-> <<23300,30492,3584,181>>, e |-> -107],
       scale |-> [s |-> 0, m |-> <<8177,16165,23317,154>>, e |-> -52]],
      [tail |-> [s |-> 1, m |-> <<20584,6294,11191,146>>, e |-> -106],
       scale |-> [s |-> 0, m |-> <<10699,28277,18076,155>>, e |-> -52]],
      [tail |-> [s |-> 1, m |-> <<11662,13986,8160,200>>, e |-> -106],
       scale |-> [s |-> 0, m |-> <<22630,23051,12985,156>>, e |-> -52]],
      [tail |-> [s |-> 1, m |-> <<14034,32040,18336,142>>, e |-> -108],
       scale |-> [s |-> 0, m |-> <<8183,27083,8044,157>>, e |-> -52]],
      [tail |-> [s |-> 1, m |-> <<6933,26524,25702,200>>, e |-> -106],
       scale |-> [s |-> 0, m |-> <<10469,1575,3255,158>>, e |-> -52]],
      [tail |-> [s |-> 0, m |-> <<19565,20052,32034,172>>, e |-> -107],
       scale |-> [s |-> 0, m |-> <<13346,6180,31385,158>>, e |-> -52]],
      [tail |-> [s |-> 1, m |-> <<27018,29776,18817,152>>, e |-> -106],
       scale |-> [s |-> 0, m |-> <<28,2393,26900,159>>, e |-> -52]],
      [tail |-> [s |-> 1, m |-> <<2395,4143,7741,197>>, e |-> -110],
       scale |-> [s |-> 0, m |-> <<11818,17390,22568,160>>, e |-> -52]],
      [tail |-> [s |-> 1, m |-> <<6683,20115,12909,225>>, e |-> -108],
       scale |-> [s |-> 0, m |-> <<10391,12961,18391,161>>, e |-> -52]],
      [tail |-> [s |-> 0, m |-> <<11281,16773,4021,155>>, e |-> -111],
       scale |-> [s |-> 0, m |-> <<2349,16579,14369,162>>, e |-> -52]],
      [tail |-> [s |-> 0, m |-> <<25839,30220,6180,179>>, e |-> -106],
       scale |-> [s |-> 0, m |-> <<87,23098,10503,163>>, e |-> -52]],
      [tail |-> [s |-> 0, m |-> <<889,13634,13191,246>>, e |-> -109],
       scale |-> [s |-> 0, m |-> <<15568,27522,6794,164>>, e |-> -52]],
      [tail |-> [s |-> 0, m |-> <<4656,32286,32312,159>>, e |-> -106],
       scale |-> [s |-> 0, m |-> <<21470,25007,3243,165>>, e |-> -52]],
      [tail |-> [s |-> 0, m |-> <<12208,30453,17210,180>>, e |-> -108],
       scale |-> [s |-> 0, m |-> <<10791,10860,32619,165>>, e |-> -52]],
      [tail |-> [s |-> 0, m |-> <<24695,22185,30455,152>>, e |-> -106],
       scale |-> [s |-> 0, m |-> <<23821,13307,29386,166>>, e |-> -52]],
      [tail |-> [s |-> 1, m |-> <<9102,227,20688,252>>, e |-> -107],
       scale |-> [s |-> 0, m |-> <<11431,27962,26313,167>>, e |-> -52]],
      [tail |-> [s |-> 1, m |-> <<9033,14631,31539,190>>, e |-> -107],
       scale |-> [s |-> 0, m |-> <<26178,17822,23402,168>>, e |-> -52]],
      [tail |-> [s |-> 1, m |-> <<14431,31262,31514,198>>, e |-> -108],
       scale |-> [s |-> 0, m |-> <<20354,11578,20653,169>>, e |-> -52]],
      [tail |-> [s |-> 1, m |-> <<23798,22774,18715,176>>, e |-> -107],
       scale |-> [s |-> 0, m |-> <<4623,5307,18067,170>>, e |-> -52]],
      [tail |-> [s |-> 0, m |-> <<22414,12795,21524,153>>, e |-> -106],
       scale |-> [s |-> 0, m |-> <<10202,28010,15644,171>>, e |-> -52]],
      [tail |-> [s |-> 0, m |-> <<6917,24341,25308,220>>, e |-> -108],
       scale |-> [s |-> 0, m |-> <<18429,10543,13387,172>>, e |-> -52]],
      [tail |-> [s |-> 0, m |-> <<21513,17464,3975,131>>, e |-> -106],
       scale |-> [s |-> 0, m |-> <<21545,14992,11295,173>>, e |-> -52]],
      [tail |-> [s |-> 0, m |-> <<18154,8243,7701,166>>, e |-> -112],
       scale |-> [s |-> 0, m |-> <<18103,5298,9370,174>>, e |-> -52]],
      [tail |-> [s |-> 0, m |-> <<16437,22217,19352,161>>, e |-> -106],
       scale |-> [s |-> 0, m |-> <<8520,11098,7612,175>>, e |-> -52]],
      [tail |-> [s |-> 1, m |-> <<30367,17202,4393,231>>, e |-> -107],
       scale |-> [s |-> 0, m |-> <<23561,29421,6022,176>>, e |-> -52]],
      [tail |-> [s |-> 1, m |-> <<19880,30686,20244,225>>, e |-> -107],
       scale |-> [s |-> 0, m |-> <<21893,24692,4602,177>>, e |-> -52]],
      [tail |-> [s |-> 1, m |-> <<27054,4695,19938,162>>, e |-> -107],
       scale |-> [s |-> 0, m |-> <<17184,27033,3352,178>>, e |-> -52]],
      [tail |-> [s |-> 1, m |-> <<22616,28844,15221,158>>, e |-> -106],
       scale |-> [s |-> 0, m |-> <<8741,1194,2274,179>>, e |-> -52]],
      [tail |-> [s |-> 0, m |-> <<6500,252,17066,184>>, e |-> -110],
       scale |-> [s |-> 0, m |-> <<10611,10393,1367,180>>, e |-> -52]],
      [tail |-> [s |-> 1, m |-> <<8744,32444,20414,157>>, e |-> -106],
       scale |-> [s |-> 0, m |-> <<15309,19710,633,181>>, e |-> -52]],
      [tail |-> [s |-> 1, m |-> <<14722,3689,19126,208>>, e |-> -109],
       scale |-> [s |-> 0, m |-> <<23231,27159,73,182>>, e |-> -52]],
      [tail |-> [s |-> 1, m |-> <<10734,28891,8126,155>>, e |-> -109],
       scale |-> [s |-> 0, m |-> <<6703,30922,32456,182>>, e |-> -52]],
      [tail |-> [s |-> 1, m |-> <<2129,10689,28917,134>>, e |-> -107],
       scale |-> [s |-> 0, m |-> <<5252,29347,32247,183>>, e |-> -52]],
      [tail |-> [s |-> 1, m |-> <<16079,31924,32145,192>>, e |-> -108],
       scale |-> [s |-> 0, m |-> <<24436,20952,32215,184>>, e |-> -52]],
      [tail |-> [s |-> 1, m |-> <<32176,278,14635,183>>, e |-> -107],
       scale |-> [s |-> 0, m |-> <<372,4427,32361,185>>, e |-> -52]],
      [tail |-> [s |-> 1, m |-> <<26250,15531,25800,176>>, e |-> -107],
       scale |-> [s |-> 0, m |-> <<26569,11396,32685,186>>, e |-> -52]],
      [tail |-> [s |-> 0, m |-> <<21715,15379,29485,132>>, e |-> -106],
       scale |-> [s |-> 0, m |-> <<23871,8124,421,188>>, e |-> -52]],
      [tail |-> [s |-> 1, m |-> <<9501,29339,19314,217>>, e |-> -108],
       scale |-> [s |-> 0, m |-> <<391,26582,1105,189>>, e |-> -52]],
      [tail |-> [s |-> 0, m |-> <<16491,10447,13301,167>>, e |-> -106],
       scale |-> [s |-> 0, m |-> <<16690,609,1972,190>>, e |-> -52]],
      [tail |-> [s |-> 0, m |-> <<27733,22444,12166,175>>, e |-> -109],
       scale |-> [s |-> 0, m |-> <<20066,28062,3020,191>>, e |-> -52]],
      [tail |-> [s |-> 1, m |-> <<20290,24423,1812,197>>, e |-> -107],
       scale |-> [s |-> 0, m |-> <<6674,10364,4253,192>>, e |-> -52]],
      [tail |-> [s |-> 1, m |-> <<14132,25206,9947,155>>, e |-> -106],
       scale |-> [s |-> 0, m |-> <<19987,12953,5670,193>>, e |-> -52]],
      [tail |-> [s |-> 1, m |-> <<32542,29747,31248,130>>, e |-> -107],
       scale |-> [s |-> 0, m |-> <<18349,3143,7273,194>>, e |-> -52]],
      [tail |-> [s |-> 1, m |-> <<22382,12516,20803,166>>, e |-> -106],
       scale |-> [s |-> 0, m |-> <<4845,13961,9062,195>>, e |-> -52]],
      [tail |-> [s |-> 0, m |-> <<2560,13853,13725,133>>, e |-> -106],
       scale |-> [s |-> 0, m |-> <<26265,13076,11039,196>>, e |-> -52]],
      [tail |-> [s |-> 0, m |-> <<27316,993,23743,237>>, e |-> -107],
       scale |-> [s |-> 0, m |-> <<8411,1109,13205,197>>, e |-> -52]],
      [tail |-> [s |-> 1, m |-> <<26623,14731,22914,173>>, e |-> -109],
       scale |-> [s |-> 0, m |-> <<17548,11626,15560,198>>, e |-> -52]],
      [tail |-> [s |-> 0, m |-> <<24388,13286,23053,223>>, e |-> -108],
       scale |-> [s |-> 0, m |-> <<30518,12842,18106,199>>, e |-> -52]],
      [tail |-> [s |-> 1, m |-> <<15747,20028,9342,152>>, e |-> -106],
       scale |-> [s |-> 0, m |-> <<32710,5923,20844,200>>, e |-> -52]],
      [tail |-> [s |-> 1, m |-> <<7721,5848,9954,237>>, e |-> -110],
       scale |-> [s |-> 0, m |-> <<17893,24987,23774,201>>, e |-> -52]],
      [tail |-> [s |-> 1, m |-> <<14681,31009,4069,225>>, e |-> -109],
       scale |-> [s |-> 0, m |-> <<21007,6032,26899,202>>, e |-> -52]],
      [tail |-> [s |-> 1, m |-> <<31146,17897,3340,146>>, e |-> -106],
       scale |-> [s |-> 0, m |-> <<20048,16316,30218,203>>, e |-> -52]],
      [tail |-> [s |-> 1, m |-> <<3659,11981,10675,174>>, e |-> -107],
       scale |-> [s |-> 0, m |-> <<1978,24980,965,205>>, e |-> -52]],
      [tail |-> [s |-> 0, m |-> <<20007,22307,16368,141>>, e |-> -108],
       scale |-> [s |-> 0, m |-> <<28816,1351,4678,206>>, e |-> -52]],
      [tail |-> [s |-> 0, m |-> <<29627,16916,18647,238>>, e |-> -109],
       scale |-> [s |-> 0, m |-> <<8995,13254,8588,207>>, e |-> -52]],
      [tail |-> [s |-> 1, m |-> <<8803,17604,5136,190>>, e |-> -107],
       scale |-> [s |-> 0, m |-> <<25957,30395,12697,208>>, e |-> -52]],
      [tail |-> [s |-> 0, m |-> <<12757,18372,29211,216>>, e |-> -107],
       scale |-> [s |-> 0, m |-> <<11571,22676,17007,209>>, e |-> -52]],
      [tail |-> [s |-> 1, m |-> <<15125,10105,28487,141>>, e |-> -106],
       scale |-> [s |-> 0, m |-> <<9565,25724,21518,210>>, e |-> -52]],
      [tail |-> [s |-> 0, m |-> <<12754,14812,12486,134>>, e |-> -106],
       scale |-> [s |-> 0, m |-> <<13144,9825,26232,211>>, e |-> -52]],
      [tail |-> [s |-> 0, m |-> <<23219,23782,9745,163>>, e |-> -107],
       scale |-> [s |-> 0, m |-> <<32191,10995,31149,212>>, e |-> -52]],
      [tail |-> [s |-> 1, m |-> <<7604,12061,32566,150>>, e |-> -107],
       scale |-> [s |-> 0, m |-> <<29562,32679,3502,214>>, e |-> -52]],
      [tail |-> [s |-> 0, m |-> <<13191,9622,27102,224>>, e |-> -107],
       scale |-> [s |-> 0, m |-> <<21421,12981,8830,215>>, e |-> -52]],
      [tail |-> [s |-> 1, m |-> <<23034,5539,28221,131>>, e |-> -106],
       scale |-> [s |-> 0, m |-> <<13926,21275,14364,216>>, e |-> -52]],
      [tail |-> [s |-> 1, m |-> <<11962,11705,3941,174>>, e |-> -110],
       scale |-> [s |-> 0, m |-> <<5627,28830,20106,217>>, e |-> -52]],
      [tail |-> [s |-> 1, m |-> <<30272,31565,4152,133>>, e |-> -106],
       scale |-> [s |-> 0, m |-> <<22842,7114,26058,218>>, e |-> -52]],
      [tail |-> [s |-> 1, m |-> <<4916,29019,23504,198>>, e |-> -109],
       scale |-> [s |-> 0, m |-> <<24135,26102,32219,219>>, e |-> -52]],
      [tail |-> [s |-> 1, m |-> <<2613,22193,15241,143>>, e |-> -106],
       scale |-> [s |-> 0, m |-> <<1610,24898,5824,221>>, e |-> -52]],
      [tail |-> [s |-> 0, m |-> <<24013,5311,32604,167>>, e |-> -108],
       scale |-> [s |-> 0, m |-> <<16850,8343,12410,222>>, e |-> -52]],
      [tail |-> [s |-> 1, m |-> <<6316,29989,30703,141>>, e |-> -106],
       scale |-> [s |-> 0, m |-> <<7689,14254,19209,223>>, e |-> -52]],
      [tail |-> [s |-> 0, m |-> <<3251,24926,15032,155>>, e |-> -108],
       scale |-> [s |-> 0, m |-> <<21148,15114,26223,224>>, e |-> -52]],
      [tail |-> [s |-> 0, m |-> <<32148,14655,3273,247>>, e |-> -107],
       scale |-> [s |-> 0, m |-> <<20602,16383,685,226>>, e |-> -52]],
      [tail |-> [s |-> 0, m |-> <<22956,8722,575,167>>, e |-> -107],
       scale |-> [s |-> 0, m |-> <<20811,23727,8132,227>>, e |-> -52]],
      [tail |-> [s |-> 0, m |-> <<6759,28828,14012,158>>, e |-> -109],
       scale |-> [s |-> 0, m |-> <<26549,10253,15798,228>>, e |-> -52]],
      [tail |-> [s |-> 0, m |-> <<6504,22820,11441,187>>, e |-> -109],
       scale |-> [s |-> 0, m |-> <<4201,14815,23683,229>>, e |-> -52]],
      [tail |-> [s |-> 1, m |-> <<13778,1945,10338,132>>, e |-> -107],
       scale |-> [s |-> 0, m |-> <<17402,10939,31789,230>>, e |-> -52]],
      [tail |-> [s |-> 1, m |-> <<31343,32767,13684,253>>, e |-> -107],
       scale |-> [s |-> 0, m |-> <<2428,5135,7349,232>>, e |-> -52]],
      [tail |-> [s |-> 1, m |-> <<10569,28907,14008,128>>, e |-> -106],
       scale |-> [s |-> 0, m |-> <<2546,4123,15900,233>>, e |-> -52]],
      [tail |-> [s |-> 0, m |-> <<1959,19578,3606,165>>, e |-> -108],
       scale |-> [s |-> 0, m |-> <<9351,14839,24675,234>>, e |-> -52]],
      [tail |-> [s |-> 1, m |-> <<8719,16512,18040,148>>, e |-> -107],
       scale |-> [s |-> 0, m |-> <<920,11667,908,236>>, e |-> -52]],
      [tail |-> [s |-> 0, m |-> <<4780,11139,26947,242>>, e |-> -107],
       scale |-> [s |-> 0, m |-> <<12933,1974,10136,237>>, e |-> -52]],
      [tail |-> [s |-> 0, m |-> <<27467,22530,26982,161>>, e |-> -107],
       scale |-> [s |-> 0, m |-> <<13408,26115,19591,238>>, e |-> -52]],
      [tail |-> [s |-> 1, m |-> <<15903,3944,21636,150>>, e |-> -107],
       scale |-> [s |-> 0, m |-> <<7007,26359,29276,239>>, e |-> -52]],
      [tail |-> [s |-> 1, m |-> <<3529,30350,10980,201>>, e |-> -107],
       scale |-> [s |-> 0, m |-> <<8489,10731,6424,241>>, e |-> -52]],
      [tail |-> [s |-> 0, m |-> <<2259,16501,22545,165>>, e |-> -108],
       scale |-> [s |-> 0, m |-> <<16374,20246,16571,242>>, e |-> -52]],
      [tail |-> [s |-> 0, m |-> <<29297,9018,6065,158>>, e |-> -107],
       scale |-> [s |-> 0, m |-> <<19587,30606,26951,243>>, e |-> -52]],
      [tail |-> [s |-> 1, m |-> <<4592,8103,23626,255>>, e |-> -107],
       scale |-> [s |-> 0, m |-> <<4314,17737,4798,245>>, e |-> -52]],
      [tail |-> [s |-> 1, m |-> <<29821,17478,14947,237>>, e |-> -107],
       scale |-> [s |-> 0, m |-> <<26609,23324,15648,246>>, e |-> -52]],
      [tail |-> [s |-> 0, m |-> <<8200,852,3825,246>>, e |-> -107],
       scale |-> [s |-> 0, m |-> <<23079,23746,26735,247>>, e |-> -52]],
      [tail |-> [s |-> 0, m |-> <<27442,1875,11859,161>>, e |-> -107],
       scale |-> [s |-> 0, m |-> <<14999,28375,5292,249>>, e |-> -52]],
      [tail |-> [s |-> 0, m |-> <<1518,25507,4772,211>>, e |-> -107],
       scale |-> [s |-> 0, m |-> <<17728,14044,16857,250>>, e |-> -52]],
      [tail |-> [s |-> 1, m |-> <<25581,18551,24299,241>>, e |-> -107],
       scale |-> [s |-> 0, m |-> <<15892,23353,28662,251>>, e |-> -52]],
      [tail |-> [s |-> 0, m |-> <<19869,6947,9453,188>>, e |-> -108],
       scale |-> [s |-> 0, m |-> <<4312,829,7942,253>>, e |-> -52]],
      [tail |-> [s |-> 0, m |-> <<19593,705,5893,152>>, e |-> -110],
       scale |-> [s |-> 0, m |-> <<29169,22302,20232,254>>, e |-> -52]]
    >>

\* log_inline: |x| = 2^k * z with z in [0.7055.., 1.411..), the interval of z
\* from the 7 bits below its leading ones, r = z/c - 1
PowBelow(x) == BigCmp(x.m, BigShl(BigFromInt(1480021), 32)) = -1

PowK(x) == x.e + 53 - (IF PowBelow(x) THEN 1 ELSE 0)

PowI(x) ==
    BigToInt(BigShr(BigSub(x.m, BigShl(BigFromInt(IF PowBelow(x) THEN 431445 ELSE 1480021), 32)), 45))

PowLogPair(hi, lo, y) == [hi |-> y, lo |-> FAdd(FSub(hi, y), lo)]

PowLogPoly(r, ar2) ==
    FFma(ar2, FFma(FFma(r, PowData.A[7], PowData.A[6]), ar2,
                   FFma(r, PowData.A[5], PowData.A[4])),
         FFma(r, PowData.A[3], PowData.A[2]))

PowLogSum(hi, lo) == PowLogPair(hi, lo, FAdd(hi, lo))

PowLogLo(r, ar2, t2, hi, s3) ==
    PowLogSum(hi, FFma(FMul(r, ar2), PowLogPoly(r, ar2),
                       FAdd(s3, FAdd(FSub(t2, hi), ar2))))

PowLogHi(lo1, r, ar, t1, t2, ar2) ==
    PowLogLo(r, ar2, t2, FAdd(t2, ar2),
             FAdd(FAdd(lo1, FAdd(FSub(t1, t2), r)), FFma(ar, r, FNeg(ar2))))

PowLogAr(t1, lo1, r, ar) == PowLogHi(lo1, r, ar, t1, FAdd(r, t1), FMul(r, ar))

PowLogR(t1, lo1, r) == PowLogAr(t1, lo1, r, FMul(r, PowData.A[1]))

PowLogOf(kd, t, z) ==
    PowLogR(FFma(kd, PowData.ln2hi, t.logc), FFma(kd, PowData.ln2lo, t.logctail),
            FFma(z, t.invc, FFromInt(-1)))

PowLog(x) ==
    PowLogOf(FFromInt(PowK(x)), PowLogTable[PowI(x) + 1],
             [s |-> 0, m |-> x.m, e |-> x.e - PowK(x)])

\* exp_inline: exp(ehi + elo) = 2^(n/128) * exp(r), n the integer nearest to
\* ehi * 128/ln2
PowExpResult(tmp, scale) == FFma(tmp, scale, scale)

PowExpPoly(r, r2, t, q) ==
    PowExpResult(FFma(FFma(r, PowData.C[4], PowData.C[3]), FMul(r2, r2),
                      FFma(FFma(r, PowData.C[2], PowData.C[1]), r2,
                           FAdd(r, t.tail))),
                 [t.scale EXCEPT !.e = @ + q])

PowExpScale(r, n) ==
    PowExpPoly(r, FMul(r, r), PowExpTable[(n % 128) + 1], (n - (n % 128)) \div 128)

PowExpReduce(ehi, elo, kd) ==
    PowExpScale(FAdd(elo, FFma(kd, PowData.negln2loN,
                               FFma(kd, PowData.negln2hiN, ehi))),
                FTrunc(kd))

PowExp(ehi, elo) ==
    IF IsZero(ehi) THEN FFromInt(1)
    ELSE PowExpReduce(ehi, elo,
                      FSub(FFma(ehi, PowData.invln2N, PowData.shift), PowData.shift))

\* y * (hi + lo) for y = 2, as a pair again
PowTimes(y, l, ehi) == PowExp(ehi, FFma(y, l.lo, FFma(l.hi, y, FNeg(ehi))))

PowOfLog(y, l) == PowTimes(y, l, FMul(y, l.hi))

Pow2(x) == IF IsZero(x) THEN FZero(0) ELSE PowOfLog(FFromInt(2), PowLog(FAbs(x)))

\* the left-to-right sum of xs[lo..hi] onto acc (the test of acc.s has acc
\* computed before the terms behind it are added)
RECURSIVE FSumRange(_, _, _, _)
FSumRange(acc, xs, lo, hi) ==
    IF acc.s \in {0, 1} /\ lo > hi THEN acc
    ELSE IF lo = hi THEN FAdd(acc, xs[lo])
    ELSE FSumRange(FSumRange(acc, xs, lo, (lo + hi) \div 2), xs,
                   ((lo + hi) \div 2) + 1, hi)

\* sum(xs): from the int 0, left to right
FSum(xs) == FSumRange(FZero(0), xs, 1, Len(xs))

\* sum(xs) / len(xs)
FMean(xs) == FDiv(FSum(xs), FFromInt(Len(xs)))

\* float('inf')
FInf == [inf |-> TRUE]

(***************************************************************************)
(* Text: sequences of one-character strings.                               *)
(***************************************************************************)
Digits == <<"0", "1", "2", "3", "4", "5", "6", "7", "8", "9">>

\* A character outside printable ASCII is written by its code point, "U+0663"
\* (the Cyrillic letters of the texts have names of their own, "CYR_E").
\* The decimal digits of the other scripts, which int() and \d of the patterns
\* take like 0-9: of every script the digits 0 to 9 in this order
ScriptDigits ==
    << <<"U+0660", "U+0661", "U+0662", "U+0663", "U+0664", "U+0665", "U+0666", "U+0667", "U+0668", "U+0669">>,
       <<"U+06F0", "U+06F1", "U+06F2", "U+06F3", "U+06F4", "U+06F5", "U+06F6", "U+06F7", "U+06F8", "U+06F9">>,
       <<"U+07C0", "U+07C1", "U+07C2", "U+07C3", "U+07C4", "U+07C5", "U+07C6", "U+07C7", "U+07C8", "U+07C9">>,
       <<"U+0966", "U+0967", "U+0968", "U+0969", "U+096A", "U+096B", "U+096C", "U+096D", "U+096E", "U+096F">>,
       <<"U+09E6", "U+09E7", "U+09E8", "U+09E9", "U+09EA", "U+09EB", "U+09EC", "U+09ED", "U+09EE", "U+09EF">>,
       <<"U+0A66", "U+0A67", "U+0A68", "U+0A69", "U+0A6A", "U+0A6B", "U+0A6C", "U+0A6D", "U+0A6E", "U+0A6F">>,
       <<"U+0AE6", "U+0AE7", "U+0AE8", "U+0AE9", "U+0AEA", "U+0AEB", "U+0AEC", "U+0AED", "U+0AEE", "U+0AEF">>,
       <<"U+0B66", "U+0B67", "U+0B68", "U+0B69", "U+0B6A", "U+0B6B", "U+0B6C", "U+0B6D", "U+0B6E", "U+0B6F">>,
       <<"U+0BE6", "U+0BE7", "U+0BE8", "U+0BE9", "U+0BEA", "U+0BEB", "U+0BEC", "U+0BED", "U+0BEE", "U+0BEF">>,
       <<"U+0C66", "U+0C67", "U+0C68", "U+0C69", "U+0C6A", "U+0C6B", "U+0C6C", "U+0C6D", "U+0C6E", "U+0C6F">>,
       <<"U+0CE6", "U+0CE7", "U+0CE8", "U+0CE9", "U+0CEA", "U+0CEB", "U+0CEC", "U+0CED", "U+0CEE", "U+0CEF">>,
       <<"U+0D66", "U+0D67", "U+0D68", "U+0D69", "U+0D6A", "U+0D6B", "U+0D6C", "U+0D6D", "U+0D6E", "U+0D6F">>,
       <<"U+0DE6", "U+0DE7", "U+0DE8", "U+0DE9", "U+0DEA", "U+0DEB", "U+0DEC", "U+0DED", "U+0DEE", "U+0DEF">>,
       <<"U+0E50", "U+0E51", "U+0E52", "U+0E53", "U+0E54", "U+0E55", "U+0E56", "U+0E57", "U+0E58", "U+0E59">>,
       <<"U+0ED0", "U+0ED1", "U+0ED2", "U+0ED3", "U+0ED4", "U+0ED5", "U+0ED6", "U+0ED7", "U+0ED8", "U+0ED9">>,
       <<"U+0F20", "U+0F21", "U+0F22", "U+0F23", "U+0F24", "U+0F25", "U+0F26", "U+0F27", "U+0F28", "U+0F29">>,
       <<"U+1040", "U+1041", "U+1042", "U+1043", "U+1044", "U+1045", "U+1046", "U+1047", "U+1048", "U+1049">>,
       <<"U+1090", "U+1091", "U+1092", "U+1093", "U+1094", "U+1095", "U+1096", "U+1097", "U+1098", "U+1099">>,
       <<"U+17E0", "U+17E1", "U+17E2", "U+17E3", "U+17E4", "U+17E5", "U+17E6", "U+17E7", "U+17E8", "U+17E9">>,
       <<"U+1810", "U+1811", "U+1812", "U+1813", "U+1814", "U+1815", "U+1816", "U+1817", "U+1818", "U+1819">>,
       <<"U+1946", "U+1947", "U+1948", "U+1949", "U+194A", "U+194B", "U+194C", "U+194D", "U+194E", "U+194F">>,
       <<"U+19D0", "U+19D1", "U+19D2", "U+19D3", "U+19D4", "U+19D5", "U+19D6", "U+19D7", "U+19D8", "U+19D9">>,
       <<"U+1A80", "U+1A81", "U+1A82", "U+1A83", "U+1A84", "U+1A85", "U+1A86", "U+1A87", "U+1A88", "U+1A89">>,
       <<"U+1A90", "U+1A91", "U+1A92", "U+1A93", "U+1A94", "U+1A95", "U+1A96", "U+1A97", "U+1A98", "U+1A99">>,
       <<"U+1B50", "U+1B51", "U+1B52", "U+1B53", "U+1B54", "U+1B55", "U+1B56", "U+1B57", "U+1B58", "U+1B59">>,
       <<"U+1BB0", "U+1BB1", "U+1BB2", "U+1BB3", "U+1BB4", "U+1BB5", "U+1BB6", "U+1BB7", "U+1BB8", "U+1BB9">>,
       <<"U+1C40", "U+1C41", "U+1C42", "U+1C43", "U+1C44", "U+1C45", "U+1C46", "U+1C47", "U+1C48", "U+1C49">>,
       <<"U+1C50", "U+1C51", "U+1C52", "U+1C53", "U+1C54", "U+1C55", "U+1C56", "U+1C57", "U+1C58", "U+1C59">>,
       <<"U+A620", "U+A621", "U+A622", "U+A623", "U+A624", "U+A625", "U+A626", "U+A627", "U+A628", "U+A629">>,
       <<"U+A8D0", "U+A8D1", "U+A8D2", "U+A8D3", "U+A8D4", "U+A8D5", "U+A8D6", "U+A8D7", "U+A8D8", "U+A8D9">>,
       <<"U+A900", "U+A901", "U+A902", "U+A903", "U+A904", "U+A905", "U+A906", "U+A907", "U+A908", "U+A909">>,
       <<"U+A9D0", "U+A9D1", "U+A9D2", "U+A9D3", "U+A9D4", "U+A9D5", "U+A9D6", "U+A9D7", "U+A9D8", "U+A9D9">>,
       <<"U+A9F0", "U+A9F1", "U+A9F2", "U+A9F3", "U+A9F4", "U+A9F5", "U+A9F6", "U+A9F7", "U+A9F8", "U+A9F9">>,
       <<"U+AA50", "U+AA51", "U+AA52", "U+AA53", "U+AA54", "U+AA55", "U+AA56", "U+AA57", "U+AA58", "U+AA59">>,
       <<"U+ABF0", "U+ABF1", "U+ABF2", "U+ABF3", "U+ABF4", "U+ABF5", "U+ABF6", "U+ABF7", "U+ABF8", "U+ABF9">>,
       <<"U+FF10", "U+FF11", "U+FF12", "U+FF13", "U+FF14", "U+FF15", "U+FF16", "U+FF17", "U+FF18", "U+FF19">>,
       <<"U+104A0", "U+104A1", "U+104A2", "U+104A3", "U+104A4", "U+104A5", "U+104A6", "U+104A7", "U+104A8", "U+104A9">>,
       <<"U+10D30", "U+10D31", "U+10D32", "U+10D33", "U+10D34", "U+10D35", "U+10D36", "U+10D37", "U+10D38", "U+10D39">>,
       <<"U+11066", "U+11067", "U+11068", "U+11069", "U+1106A", "U+1106B", "U+1106C", "U+1106D", "U+1106E", "U+1106F">>,
       <<"U+110F0", "U+110F1", "U+110F2", "U+110F3", "U+110F4", "U+110F5", "U+110F6", "U+110F7", "U+110F8", "U+110F9">>,
       <<"U+11136", "U+11137", "U+11138", "U+11139", "U+1113A", "U+1113B", "U+1113C", "U+1113D", "U+1113E", "U+1113F">>,
       <<"U+111D0", "U+111D1", "U+111D2", "U+111D3", "U+111D4", "U+111D5", "U+111D6", "U+111D7", "U+111D8", "U+111D9">>,
       <<"U+112F0", "U+112F1", "U+112F2", "U+112F3", "U+112F4", "U+112F5", "U+112F6", "U+112F7", "U+112F8", "U+112F9">>,
       <<"U+11450", "U+11451", "U+11452", "U+11453", "U+11454", "U+11455", "U+11456", "U+11457", "U+11458", "U+11459">>,
       <<"U+114D0", "U+114D1", "U+114D2", "U+114D3", "U+114D4", "U+114D5", "U+114D6", "U+114D7", "U+114D8", "U+114D9">>,
       <<"U+11650", "U+11651", "U+11652", "U+11653", "U+11654", "U+11655", "U+11656", "U+11657", "U+11658", "U+11659">>,
       <<"U+116C0", "U+116C1", "U+116C2", "U+116C3", "U+116C4", "U+116C5", "U+116C6", "U+116C7", "U+116C8", "U+116C9">>,
       <<"U+11730", "U+11731", "U+11732", "U+11733", "U+11734", "U+11735", "U+11736", "U+11737", "U+11738", "U+11739">>,
       <<"U+118E0", "U+118E1", "U+118E2", "U+118E3", "U+118E4", "U+118E5", "U+118E6", "U+118E7", "U+118E8", "U+118E9">>,
       <<"U+11950", "U+11951", "U+11952", "U+11953", "U+11954", "U+11955", "U+11956", "U+11957", "U+11958", "U+11959">>,
       <<"U+11C50", "U+11C51", "U+11C52", "U+11C53", "U+11C54", "U+11C55", "U+11C56", "U+11C57", "U+11C58", "U+11C59">>,
       <<"U+11D50", "U+11D51", "U+11D52", "U+11D53", "U+11D54", "U+11D55", "U+11D56", "U+11D57", "U+11D58", "U+11D59">>,
       <<"U+11DA0", "U+11DA1", "U+11DA2", "U+11DA3", "U+11DA4", "U+11DA5", "U+11DA6", "U+11DA7", "U+11DA8", "U+11DA9">>,
       <<"U+16A60", "U+16A61", "U+16A62", "U+16A63", "U+16A64", "U+16A65", "U+16A66", "U+16A67", "U+16A68", "U+16A69">>,
       <<"U+16AC0", "U+16AC1", "U+16AC2", "U+16AC3", "U+16AC4", "U+16AC5", "U+16AC6", "U+16AC7", "U+16AC8", "U+16AC9">>,
       <<"U+16B50", "U+16B51", "U+16B52", "U+16B53", "U+16B54", "U+16B55", "U+16B56", "U+16B57", "U+16B58", "U+16B59">>,
       <<"U+1D7CE", "U+1D7CF", "U+1D7D0", "U+1D7D1", "U+1D7D2", "U+1D7D3", "U+1D7D4", "U+1D7D5", "U+1D7D6", "U+1D7D7">>,
       <<"U+1D7D8", "U+1D7D9", "U+1D7DA", "U+1D7DB", "U+1D7DC", "U+1D7DD", "U+1D7DE", "U+1D7DF", "U+1D7E0", "U+1D7E1">>,
       <<"U+1D7E2", "U+1D7E3", "U+1D7E4", "U+1D7E5", "U+1D7E6", "U+1D7E7", "U+1D7E8", "U+1D7E9", "U+1D7EA", "U+1D7EB">>,
       <<"U+1D7EC", "U+1D7ED", "U+1D7EE", "U+1D7EF", "U+1D7F0", "U+1D7F1", "U+1D7F2", "U+1D7F3", "U+1D7F4", "U+1D7F5">>,
       <<"U+1D7F6", "U+1D7F7", "U+1D7F8", "U+1D7F9", "U+1D7FA", "U+1D7FB", "U+1D7FC", "U+1D7FD", "U+1D7FE", "U+1D7FF">>,
       <<"U+1E140", "U+1E141", "U+1E142", "U+1E143", "U+1E144", "U+1E145", "U+1E146", "U+1E147", "U+1E148", "U+1E149">>,
       <<"U+1E2F0", "U+1E2F1", "U+1E2F2", "U+1E2F3", "U+1E2F4", "U+1E2F5", "U+1E2F6", "U+1E2F7", "U+1E2F8", "U+1E2F9">>,
       <<"U+1E950", "U+1E951", "U+1E952", "U+1E953", "U+1E954", "U+1E955", "U+1E956", "U+1E957", "U+1E958", "U+1E959">>,
       <<"U+1FBF0", "U+1FBF1", "U+1FBF2", "U+1FBF3", "U+1FBF4", "U+1FBF5", "U+1FBF6", "U+1FBF7", "U+1FBF8", "U+1FBF9">> >>

DecimalChars ==
    {Digits[i] : i \in 1..10}
        \cup {ScriptDigits[r][i] : r \in 1..Len(ScriptDigits), i \in 1..10}

\* str.isdecimal(), \d
IsDigit(c) == c \in DecimalChars

DigitVal(c) ==
    (CHOOSE i \in 1..10 :
        Digits[i] = c \/ \E r \in 1..Len(ScriptDigits) : ScriptDigits[r][i] = c) - 1

\* Python's whitespace: str.isspace(), str.strip() and \s of the patterns
Whitespace ==
    { "\t", "\n", "U+000B", "\f", "\r", "U+001C", "U+001D", "U+001E",
      "U+001F", " ", "U+0085", "U+00A0", "U+1680", "U+2000", "U+2001",
      "U+2002", "U+2003", "U+2004", "U+2005", "U+2006", "U+2007",
      "U+2008", "U+2009", "U+200A", "U+2028", "U+2029", "U+202F",
      "U+205F", "U+3000" }

IsSpace(c) == c \in Whitespace

\* the whitespace int() strips: not the separators U+001C to U+001F
IntSpace(c) == IsSpace(c) /\ c \notin {"U+001C", "U+001D", "U+001E", "U+001F"}

SetMin(S) == CHOOSE x \in S : \A y \in S : x <= y

AllDigits(s) == \A i \in 1..Len(s) : IsDigit(s[i])

RECURSIVE DigitsToInt(_)
DigitsToInt(s) ==
    IF s = <<>> THEN 0 ELSE 10 * DigitsToInt(Front(s)) + DigitVal(s[Len(s)])

\* str.strip()
RECURSIVE LStrip(_)
LStrip(s) == IF s # <<>> /\ IsSpace(s[1]) THEN LStrip(Tail(s)) ELSE s

RECURSIVE RStrip(_)
RStrip(s) == IF s # <<>> /\ IsSpace(s[Len(s)]) THEN RStrip(Front(s)) ELSE s

Strip(s) == RStrip(LStrip(s))

\* a fault for ZFill: the zeros are put behind the digits
ZFillBehind(s, width) ==
    IF Len(s) >= width THEN s ELSE s \o Zeros0(width - Len(s))

\* str.zfill(width): the zeros go in front, behind a leading sign
ZFill(s, width) ==
    IF Len(s) >= width THEN s
    ELSE IF s # <<>> /\ s[1] \in {"+", "-"}
    THEN <<s[1]>> \o Zeros0(width - Len(s)) \o Tail(s)
    ELSE Zeros0(width - Len(s)) \o s

\* s[a:b] of Python (0-based, end excluded, clipped to the string)
Slice(s, a, b) == SubSeq(s, a + 1, Min(b, Len(s)))

RECURSIVE IntToDigits(_)
IntToDigits(n) ==
    IF n < 10 THEN <<Digits[n + 1]>>
    ELSE IntToDigits(n \div 10) \o <<Digits[(n % 10) + 1]>>

\* format(n, "0<width>d") for n >= 0
FormatInt(n, width) == ZFill(IntToDigits(n), width)

(***************************************************************************)
(* DMS codec                                                               *)
(***************************************************************************)
\* a call's outcome: a returned value or a raised exception
Return(v) == [ok |-> TRUE, val |-> v]

Raise(name) == [ok |-> FALSE, exc |-> name]

\* int(text): the text without the whitespace around it is an optional sign
\* and a run of digits, in which single underscores may stand between digits;
\* ValueError otherwise.  IntStrip is the text without that whitespace.
IntStrip(s) ==
    LET inner == {i \in 1..Len(s) : ~IntSpace(s[i])}
    IN  IF inner = {} THEN <<>>
        ELSE SubSeq(s, SetMin(inner), CHOOSE i \in inner : \A j \in inner : j <= i)

HasSign(s) == s # <<>> /\ s[1] \in {"+", "-"}

Unsigned(s) == IF HasSign(s) THEN Tail(s) ELSE s

DigitOrUnderscore(s, i) ==
    \/ IsDigit(s[i])
    \/ s[i] = "_" /\ i > 1 /\ i < Len(s) /\ IsDigit(s[i - 1]) /\ IsDigit(s[i + 1])

IntDigitsOk(s) == s # <<>> /\ \A i \in 1..Len(s) : DigitOrUnderscore(s, i)

IntOk(s) == IntDigitsOk(Unsigned(IntStrip(s)))

IntSigned(s) ==
    IF HasSign(s) /\ s[1] = "-" THEN -DigitsToInt(SelectSeq(Tail(s), IsDigit))
    ELSE DigitsToInt(SelectSeq(Unsigned(s), IsDigit))

\* the value of int(text) where IntOk(text)
IntValue(s) == IntSigned(IntStrip(s))

\* d + m/60 + s/3600 on Python ints, evaluated left to right in floats
DmsToDecimal(d, m, s) ==
    FAdd(FAdd(FFromInt(d), FDiv(FFromInt(m), FFromInt(60))),
         FDiv(FFromInt(s), FFromInt(3600)))

\* the width of the degrees field: 3 for a longitude, 2 for a latitude
DegWidth(direction) == IF direction \in {"E", "W"} THEN 3 ELSE 2

parse_dms(dms_str0) ==
    LET dms_str == Strip(dms_str0)
    IN  IF dms_str = <<>> THEN Raise("IndexError")
        ELSE
        LET direction    == dms_str[1]
            numeric_part == Strip(Tail(dms_str))
            w            == DegWidth(direction)
            padded       == IF Len(numeric_part) = w + 4 THEN numeric_part
                            ELSE ZFill(numeric_part, w + 4)
            ds           == Slice(padded, 0, w)
            ms           == Slice(padded, w, w + 2)
            ss           == Slice(padded, w + 2, w + 4)
        IN  IF ~(IntOk(ds) /\ IntOk(ms) /\ IntOk(ss)) THEN Raise("ValueError")
            ELSE
            LET dec == DmsToDecimal(IntValue(ds), IntValue(ms), IntValue(ss))
            IN  Return(IF direction \in {"S", "W"} THEN FNeg(dec) ELSE dec)

decimal_to_dms(decimal0, is_latitude) ==
    LET is_positive   == FGe0(decimal0)
        decimal       == FAbs(decimal0)
        degrees       == FTrunc(decimal)
        minutes_float == FMul(FSub(decimal, FFromInt(degrees)), FFromInt(60))
        minutes       == FTrunc(minutes_float)
        seconds       == FTrunc(FMul(FSub(minutes_float, FFromInt(minutes)),
                                     FFromInt(60)))
    IN  IF is_latitude
        THEN <<IF is_positive THEN "N" ELSE "S">> \o FormatInt(degrees, 2)
                 \o FormatInt(minutes, 2) \o FormatInt(seconds, 2)
        ELSE <<IF is_positive THEN "E" ELSE "W">> \o FormatInt(degrees, 3)
                 \o FormatInt(minutes, 2) \o FormatInt(seconds, 2)

\* the value of a local that is not bound (yet)
None == "None"

(***************************************************************************)
(* Circle synthesizer                                                      *)
(***************************************************************************)
\* math.pi
Pi == [s |-> 0, m |-> <<11544, 10376, 2029, 201>>, e |-> -51]

\* math.sin and math.cos are the C library's; SinTable and CosTable hold its
\* values at the arguments the model's inputs lead to (x is the argument, y the
\* value, both exact binary64 values).
SinTable ==
    {
      [x |-> [s |-> 0, m |-> <<>>, e |-> 0],
       y |-> [s |-> 0, m |-> <<>>, e |-> 0]],
      [x |-> [s |-> 0, m |-> <<17543, 5582, 23649, 178>>, e |-> -55],
       y |-> [s |-> 0, m |-> <<29577, 31766, 26729, 177>>, e |-> -55]],
      [x |-> [s |-> 0, m |-> <<17543, 5582, 23649, 178>>, e |-> -54],
       y |-> [s |-> 0, m |-> <<3061, 26900, 3745, 175>>, e |-> -54]],
      [x |-> [s |-> 0, m |-> <<29541, 28762, 1352, 134>>, e |-> -53],
       y |-> [s |-> 0, m |-> <<32767, 32767, 32767, 255>>, e |-> -54]],
      [x |-> [s |-> 0, m |-> <<17543, 5582, 23649, 178>>, e |-> -53],
       y |-> [s |-> 0, m |-> <<5660, 9336, 18141, 164>>, e |-> -53]],
      [x |-> [s |-> 0, m |-> <<5545, 15170, 13177, 223>>, e |-> -53],
       y |-> [s |-> 0, m |-> <<20537, 17822, 3518, 196>>, e |-> -53]],
      [x |-> [s |-> 0, m |-> <<29541, 28762, 1352, 134>>, e |-> -52],
       y |-> [s |-> 0, m |-> <<19626, 20656, 23019, 221>>, e |-> -53]],
      [x |-> [s |-> 0, m |-> <<23542, 788, 12501, 156>>, e |-> -52],
       y |-> [s |-> 0, m |-> <<11547, 1188, 18393, 240>>, e |-> -53]],
      [x |-> [s |-> 0, m |-> <<17543, 5582, 23649, 178>>, e |-> -52],
       y |-> [s |-> 0, m |-> <<7191, 6402, 3630, 252>>, e |-> -53]],
      [x |-> [s |-> 0, m |-> <<11544, 10376, 2029, 201>>, e |-> -52],
       y |-> [s |-> 0, m |-> <<0, 0, 0, 128>>, e |-> -52]],
      [x |-> [s |-> 0, m |-> <<5545, 15170, 13177, 223>>, e |-> -52],
       y |-> [s |-> 0, m |-> <<7191, 6402, 3630, 252>>, e |-> -53]],
      [x |-> [s |-> 0, m |-> <<32313, 19963, 24325, 245>>, e |-> -52],
       y |-> [s |-> 0, m |-> <<11548, 1188, 18393, 240>>, e |-> -53]],
      [x |-> [s |-> 0, m |-> <<29541, 28762, 1352, 134>>, e |-> -51],
       y |-> [s |-> 0, m |-> <<19627, 20656, 23019, 221>>, e |-> -53]],
      [x |-> [s |-> 0, m |-> <<26542, 31159, 6926, 145>>, e |-> -51],
       y |-> [s |-> 0, m |-> <<20537, 17822, 3518, 196>>, e |-> -53]],
      [x |-> [s |-> 0, m |-> <<23542, 788, 12501, 156>>, e |-> -51],
       y |-> [s |-> 0, m |-> <<5662, 9336, 18141, 164>>, e |-> -53]],
      [x |-> [s |-> 0, m |-> <<20542, 3185, 18075, 167>>, e |-> -51],
       y |-> [s |-> 0, m |-> <<3, 0, 0, 128>>, e |-> -53]],
      [x |-> [s |-> 0, m |-> <<17543, 5582, 23649, 178>>, e |-> -51],
       y |-> [s |-> 0, m |-> <<3064, 26900, 3745, 175>>, e |-> -54]],
      [x |-> [s |-> 0, m |-> <<14544, 7979, 29223, 189>>, e |-> -51],
       y |-> [s |-> 0, m |-> <<29575, 31766, 26729, 177>>, e |-> -55]],
      [x |-> [s |-> 0, m |-> <<11544, 10376, 2029, 201>>, e |-> -51],
       y |-> [s |-> 0, m |-> <<23559, 26152, 6296, 141>>, e |-> -105]],
      [x |-> [s |-> 0, m |-> <<8544, 12773, 7603, 212>>, e |-> -51],
       y |-> [s |-> 1, m |-> <<29566, 31766, 26729, 177>>, e |-> -55]],
      [x |-> [s |-> 0, m |-> <<5545, 15170, 13177, 223>>, e |-> -51],
       y |-> [s |-> 1, m |-> <<3060, 26900, 3745, 175>>, e |-> -54]],
      [x |-> [s |-> 0, m |-> <<2546, 17567, 18751, 234>>, e |-> -51],
       y |-> [s |-> 1, m |-> <<1, 0, 0, 128>>, e |-> -53]],
      [x |-> [s |-> 0, m |-> <<32313, 19963, 24325, 245>>, e |-> -51],
       y |-> [s |-> 1, m |-> <<5657, 9336, 18141, 164>>, e |-> -53]],
      [x |-> [s |-> 0, m |-> <<14657, 27564, 14949, 128>>, e |-> -50],
       y |-> [s |-> 1, m |-> <<20536, 17822, 3518, 196>>, e |-> -53]],
      [x |-> [s |-> 0, m |-> <<29541, 28762, 1352, 134>>, e |-> -50],
       y |-> [s |-> 1, m |-> <<19624, 20656, 23019, 221>>, e |-> -53]],
      [x |-> [s |-> 0, m |-> <<11658, 29961, 20523, 139>>, e |-> -50],
       y |-> [s |-> 1, m |-> <<11548, 1188, 18393, 240>>, e |-> -53]],
      [x |-> [s |-> 0, m |-> <<26542, 31159, 6926, 145>>, e |-> -50],
       y |-> [s |-> 1, m |-> <<7191, 6402, 3630, 252>>, e |-> -53]],
      [x |-> [s |-> 0, m |-> <<8658, 32358, 26097, 150>>, e |-> -50],
       y |-> [s |-> 1, m |-> <<0, 0, 0, 128>>, e |-> -52]],
      [x |-> [s |-> 0, m |-> <<23542, 788, 12501, 156>>, e |-> -50],
       y |-> [s |-> 1, m |-> <<7192, 6402, 3630, 252>>, e |-> -53]],
      [x |-> [s |-> 0, m |-> <<5659, 1987, 31672, 161>>, e |-> -50],
       y |-> [s |-> 1, m |-> <<11547, 1188, 18393, 240>>, e |-> -53]],
      [x |-> [s |-> 0, m |-> <<20542, 3185, 18075, 167>>, e |-> -50],
       y |-> [s |-> 1, m |-> <<19630, 20656, 23019, 221>>, e |-> -53]],
      [x |-> [s |-> 0, m |-> <<2659, 4384, 4478, 173>>, e |-> -50],
       y |-> [s |-> 1, m |-> <<20538, 17822, 3518, 196>>, e |-> -53]],
      [x |-> [s |-> 0, m |-> <<17543, 5582, 23649, 178>>, e |-> -50],
       y |-> [s |-> 1, m |-> <<5663, 9336, 18141, 164>>, e |-> -53]],
      [x |-> [s |-> 0, m |-> <<32428, 6780, 10052, 184>>, e |-> -50],
       y |-> [s |-> 1, m |-> <<32762, 32767, 32767, 255>>, e |-> -54]],
      [x |-> [s |-> 0, m |-> <<14544, 7979, 29223, 189>>, e |-> -50],
       y |-> [s |-> 1, m |-> <<3059, 26900, 3745, 175>>, e |-> -54]],
      [x |-> [s |-> 0, m |-> <<29428, 9177, 15626, 195>>, e |-> -50],
       y |-> [s |-> 1, m |-> <<29579, 31766, 26729, 177>>, e |-> -55]],
      [x |-> [s |-> 0, m |-> <<11544, 10376, 2029, 201>>, e |-> -50],
       y |-> [s |-> 1, m |-> <<23559, 26152, 6296, 141>>, e |-> -104]]
    }

CosTable ==
    {
      [x |-> [s |-> 0, m |-> <<>>, e |-> 0],
       y |-> [s |-> 0, m |-> <<0, 0, 0, 128>>, e |-> -52]],
      [x |-> [s |-> 0, m |-> <<17543, 5582, 23649, 178>>, e |-> -55],
       y |-> [s |-> 0, m |-> <<7191, 6402, 3630, 252>>, e |-> -53]],
      [x |-> [s |-> 0, m |-> <<17543, 5582, 23649, 178>>, e |-> -54],
       y |-> [s |-> 0, m |-> <<11548, 1188, 18393, 240>>, e |-> -53]],
      [x |-> [s |-> 0, m |-> <<29541, 28762, 1352, 134>>, e |-> -53],
       y |-> [s |-> 0, m |-> <<19627, 20656, 23019, 221>>, e |-> -53]],
      [x |-> [s |-> 0, m |-> <<17543, 5582, 23649, 178>>, e |-> -53],
       y |-> [s |-> 0, m |-> <<20537, 17822, 3518, 196>>, e |-> -53]],
      [x |-> [s |-> 0, m |-> <<5545, 15170, 13177, 223>>, e |-> -53],
       y |-> [s |-> 0, m |-> <<5661, 9336, 18141, 164>>, e |-> -53]],
      [x |-> [s |-> 0, m |-> <<29541, 28762, 1352, 134>>, e |-> -52],
       y |-> [s |-> 0, m |-> <<1, 0, 0, 128>>, e |-> -53]],
      [x |-> [s |-> 0, m |-> <<23542, 788, 12501, 156>>, e |-> -52],
       y |-> [s |-> 0, m |-> <<3063, 26900, 3745, 175>>, e |-> -54]],
      [x |-> [s |-> 0, m |-> <<17543, 5582, 23649, 178>>, e |-> -52],
       y |-> [s |-> 0, m |-> <<29580, 31766, 26729, 177>>, e |-> -55]],
      [x |-> [s |-> 0, m |-> <<11544, 10376, 2029, 201>>, e |-> -52],
       y |-> [s |-> 0, m |-> <<23559, 26152, 6296, 141>>, e |-> -106]],
      [x |-> [s |-> 0, m |-> <<5545, 15170, 13177, 223>>, e |-> -52],
       y |-> [s |-> 1, m |-> <<29576, 31766, 26729, 177>>, e |-> -55]],
      [x |-> [s |-> 0, m |-> <<32313, 19963, 24325, 245>>, e |-> -52],
       y |-> [s |-> 1, m |-> <<3057, 26900, 3745, 175>>, e |-> -54]],
      [x |-> [s |-> 0, m |-> <<29541, 28762, 1352, 134>>, e |-> -51],
       y |-> [s |-> 1, m |-> <<32764, 32767, 32767, 255>>, e |-> -54]],
      [x |-> [s |-> 0, m |-> <<26542, 31159, 6926, 145>>, e |-> -51],
       y |-> [s |-> 1, m |-> <<5661, 9336, 18141, 164>>, e |-> -53]],
      [x |-> [s |-> 0, m |-> <<23542, 788, 12501, 156>>, e |-> -51],
       y |-> [s |-> 1, m |-> <<20536, 17822, 3518, 196>>, e |-> -53]],
      [x |-> [s |-> 0, m |-> <<20542, 3185, 18075, 167>>, e |-> -51],
       y |-> [s |-> 1, m |-> <<19625, 20656, 23019, 221>>, e |-> -53]],
      [x |-> [s |-> 0, m |-> <<17543, 5582, 23649, 178>>, e |-> -51],
       y |-> [s |-> 1, m |-> <<11547, 1188, 18393, 240>>, e |-> -53]],
      [x |-> [s |-> 0, m |-> <<14544, 7979, 29223, 189>>, e |-> -51],
       y |-> [s |-> 1, m |-> <<7191, 6402, 3630, 252>>, e |-> -53]],
      [x |-> [s |-> 0, m |-> <<11544, 10376, 2029, 201>>, e |-> -51],
       y |-> [s |-> 1, m |-> <<0, 0, 0, 128>>, e |-> -52]],
      [x |-> [s |-> 0, m |-> <<8544, 12773, 7603, 212>>, e |-> -51],
       y |-> [s |-> 1, m |-> <<7192, 6402, 3630, 252>>, e |-> -53]],
      [x |-> [s |-> 0, m |-> <<5545, 15170, 13177, 223>>, e |-> -51],
       y |-> [s |-> 1, m |-> <<11548, 1188, 18393, 240>>, e |-> -53]],
      [x |-> [s |-> 0, m |-> <<2546, 17567, 18751, 234>>, e |-> -51],
       y |-> [s |-> 1, m |-> <<19626, 20656, 23019, 221>>, e |-> -53]],
      [x |-> [s |-> 0, m |-> <<32313, 19963, 24325, 245>>, e |-> -51],
       y |-> [s |-> 1, m |-> <<20540, 17822, 3518, 196>>, e |-> -53]],
      [x |-> [s |-> 0, m |-> <<14657, 27564, 14949, 128>>, e |-> -50],
       y |-> [s |-> 1, m |-> <<5662, 9336, 18141, 164>>, e |-> -53]],
      [x |-> [s |-> 0, m |-> <<29541, 28762, 1352, 134>>, e |-> -50],
       y |-> [s |-> 1, m |-> <<4, 0, 0, 128>>, e |-> -53]],
      [x |-> [s |-> 0, m |-> <<11658, 29961, 20523, 139>>, e |-> -50],
       y |-> [s |-> 1, m |-> <<3058, 26900, 3745, 175>>, e |-> -54]],
      [x |-> [s |-> 0, m |-> <<26542, 31159, 6926, 145>>, e |-> -50],
       y |-> [s |-> 1, m |-> <<29577, 31766, 26729, 177>>, e |-> -55]],
      [x |-> [s |-> 0, m |-> <<8658, 32358, 26097, 150>>, e |-> -50],
       y |-> [s |-> 1, m |-> <<2570, 6461, 25829, 211>>, e |-> -105]],
      [x |-> [s |-> 0, m |-> <<23542, 788, 12501, 156>>, e |-> -50],
       y |-> [s |-> 0, m |-> <<29564, 31766, 26729, 177>>, e |-> -55]],
      [x |-> [s |-> 0, m |-> <<5659, 1987, 31672, 161>>, e |-> -50],
       y |-> [s |-> 0, m |-> <<3066, 26900, 3745, 175>>, e |-> -54]],
      [x |-> [s |-> 0, m |-> <<20542, 3185, 18075, 167>>, e |-> -50],
       y |-> [s |-> 0, m |-> <<32756, 32767, 32767, 255>>, e |-> -54]],
      [x |-> [s |-> 0, m |-> <<2659, 4384, 4478, 173>>, e |-> -50],
       y |-> [s |-> 0, m |-> <<5660, 9336, 18141, 164>>, e |-> -53]],
      [x |-> [s |-> 0, m |-> <<17543, 5582, 23649, 178>>, e |-> -50],
       y |-> [s |-> 0, m |-> <<20535, 17822, 3518, 196>>, e |-> -53]],
      [x |-> [s |-> 0, m |-> <<32428, 6780, 10052, 184>>, e |-> -50],
       y |-> [s |-> 0, m |-> <<19628, 20656, 23019, 221>>, e |-> -53]],
      [x |-> [s |-> 0, m |-> <<14544, 7979, 29223, 189>>, e |-> -50],
       y |-> [s |-> 0, m |-> <<11548, 1188, 18393, 240>>, e |-> -53]],
      [x |-> [s |-> 0, m |-> <<29428, 9177, 15626, 195>>, e |-> -50],
       y |-> [s |-> 0, m |-> <<7191, 6402, 3630, 252>>, e |-> -53]],
      [x |-> [s |-> 0, m |-> <<11544, 10376, 2029, 201>>, e |-> -50],
       y |-> [s |-> 0, m |-> <<0, 0, 0, 128>>, e |-> -52]],
      [x |-> [s |-> 0, m |-> <<3945, 20715, 26595, 194>>, e |-> -53],
       y |-> [s |-> 0, m |-> <<5419, 22420, 12601, 185>>, e |-> -53]],
      [x |-> [s |-> 0, m |-> <<31820, 23430, 20856, 190>>, e |-> -62],
       y |-> [s |-> 0, m |-> <<28216, 4173, 32759, 255>>, e |-> -53]],
      [x |-> [s |-> 0, m |-> <<21017, 32032, 3915, 206>>, e |-> -53],
       y |-> [s |-> 0, m |-> <<14791, 7845, 13369, 177>>, e |-> -53]],
      [x |-> [s |-> 1, m |-> <<31820, 23430, 20856, 190>>, e |-> -62],
       y |-> [s |-> 0, m |-> <<28216, 4173, 32759, 255>>, e |-> -53]],
      [x |-> [s |-> 1, m |-> <<3945, 20715, 26595, 194>>, e |-> -53],
       y |-> [s |-> 0, m |-> <<5419, 22420, 12601, 185>>, e |-> -53]],
      [x |-> [s |-> 1, m |-> <<21017, 32032, 3915, 206>>, e |-> -53],
       y |-> [s |-> 0, m |-> <<14791, 7845, 13369, 177>>, e |-> -53]]
    }


MathSin(x) == (CHOOSE r \in SinTable : r.x = x).y

MathCos(x) == (CHOOSE r \in CosTable : r.x = x).y

\* math.radians(x): x * (pi / 180)
MathRadians(x) == FMul(x, FDiv(Pi, FFromInt(180)))

EARTH_RADIUS == 6378137

num_points == 36

SinCos(angle) == [sin |-> MathSin(angle), cos |-> MathCos(angle)]

\* angle = 2 * math.pi * i / num_points, with its sine and cosine
CircleAngle(i) ==
    SinCos(FDiv(FMul(FMul(FFromInt(2), Pi), FFromInt(i)), FFromInt(num_points)))

\* the angles of range(n + 1), in order: they do not depend on the circle
RECURSIVE CircleAnglesUpTo(_)
CircleAnglesUpTo(n) ==
    IF n < 0 THEN <<>> ELSE Append(CircleAnglesUpTo(n - 1), CircleAngle(n))

CircleAngles == CircleAnglesUpTo(num_points)

\* the loop of create_circle_polygon: point i at
\*   lat = center_lat + radius_deg_lat * sin(angle)
\*   lon = center_lon + radius_deg_lon * cos(angle)
CirclePoints(center_lat, center_lon, radius_deg_lat, radius_deg_lon) ==
    Tuple([k \in 1..(num_points + 1) |->
              <<FAdd(center_lon, FMul(radius_deg_lon, CircleAngles[k].cos)),
                FAdd(center_lat, FMul(radius_deg_lat, CircleAngles[k].sin))>>])

\* radius_deg_lon = radius_deg_lat / cos(radians(center_lat))
CircleOfLatRadius(center_lat, center_lon, radius_deg_lat) ==
    CirclePoints(center_lat, center_lon, radius_deg_lat,
                 FDiv(radius_deg_lat, MathCos(MathRadians(center_lat))))

\* the points (lon, lat) of the circle, for the default num_points;
\* radius_deg_lat = (radius_meters / EARTH_RADIUS) * (180 / pi)
create_circle_polygon(center_lat, center_lon, radius_meters) ==
    CircleOfLatRadius(center_lat, center_lon,
                      FMul(FDiv(FFromInt(radius_meters), FFromInt(EARTH_RADIUS)),
                           FDiv(FFromInt(180), Pi)))

(***************************************************************************)
(* Coordinate extractor                                                    *)
(***************************************************************************)
CharAt(s, i) == IF i >= 1 /\ i <= Len(s) THEN s[i] ELSE "EOS"

\* n digits stand at s[i], ..., s[i + n - 1]
DigitsAt(s, i, n) ==
    i >= 1 /\ i + n - 1 <= Len(s) /\ \A k \in i..(i + n - 1) : IsDigit(s[k])

\* sub in s
Contains(s, sub) ==
    \E i \in 1..(Len(s) - Len(sub) + 1) : SubSeq(s, i, i + Len(sub) - 1) = sub

\* coord_str.replace(Cyrillic Ie, 'E')
ReplaceCyrillicE(s) ==
    Tuple([i \in 1..Len(s) |-> IF s[i] = "CYR_E" THEN "E" ELSE s[i]])

\* re.sub(r'\s+', ' ', s): of every run of whitespace one space is kept
KeepChar(p) == ~IsSpace(p[1]) \/ ~p[2]

CollapseSpaces(s) ==
    LET marked == Tuple([i \in 1..Len(s) |-> <<s[i], i > 1 /\ IsSpace(s[i - 1])>>])
        kept   == SelectSeq(marked, KeepChar)
    IN  Tuple([i \in 1..Len(kept) |-> IF IsSpace(kept[i][1]) THEN " " ELSE kept[i][1]])

DefaultRadius == 5000

\* re.search(r'R[=-](\d+)', radius_str): the first place where the pattern
\* starts, and the longest run of digits from there
RadiusTokenAt(s, i) ==
    CharAt(s, i) = "R" /\ CharAt(s, i + 1) \in {"=", "-"} /\ IsDigit(CharAt(s, i + 2))

extract_radius(radius_str) ==
    LET starts == {i \in 1..Len(radius_str) : RadiusTokenAt(radius_str, i)}
    IN  IF starts = {} THEN DefaultRadius
        ELSE LET i    == SetMin(starts)
                 stop == SetMin({j \in (i + 2)..(Len(radius_str) + 1) :
                                    ~IsDigit(CharAt(radius_str, j))})
             IN  DigitsToInt(SubSeq(radius_str, i + 2, stop - 1))

\* a fault for HasRadiusMarker: only "R=" is looked for
HasRadiusMarkerEqualsOnly(s) == Contains(s, <<"R", "=">>)

\* the circle test of get_coords: "R=" in coord_str or "R-" in coord_str
HasRadiusMarker(s) == Contains(s, <<"R", "=">>) \/ Contains(s, <<"R", "-">>)

NoMatch == [end |-> 0, groups |-> <<>>]

\* a match of (\d{6})([NS])[ \-]?(\d{7})([EW]) starting at s[i]: its groups
\* and the position after it
ReversedMatchAt(s, i) ==
    IF ~(DigitsAt(s, i, 6) /\ CharAt(s, i + 6) \in {"N", "S"}) THEN NoMatch
    ELSE LET j == IF CharAt(s, i + 7) \in {" ", "-"} THEN i + 8 ELSE i + 7
         IN  IF ~(DigitsAt(s, j, 7) /\ CharAt(s, j + 7) \in {"E", "W"}) THEN NoMatch
             ELSE [end    |-> j + 8,
                   groups |-> <<SubSeq(s, i, i + 5), s[i + 6],
                                SubSeq(s, j, j + 6), s[j + 7]>>]

\* a match of ([NS])[ \-]?(\d{6})[ \-,]*([EW])[ \-]?(\d{7}) starting at s[i]
StandardMatchAt(s, i) ==
    IF CharAt(s, i) \notin {"N", "S"} THEN NoMatch
    ELSE LET j == IF CharAt(s, i + 1) \in {" ", "-"} THEN i + 2 ELSE i + 1
         IN  IF ~DigitsAt(s, j, 6) THEN NoMatch
             ELSE LET k == SetMin({q \in (j + 6)..(Len(s) + 1) :
                                      CharAt(s, q) \notin {" ", "-", ","}})
                      l == IF CharAt(s, k + 1) \in {" ", "-"} THEN k + 2 ELSE k + 1
                  IN  IF ~(CharAt(s, k) \in {"E", "W"} /\ DigitsAt(s, l, 7)) THEN NoMatch
                      ELSE [end    |-> l + 7,
                            groups |-> <<s[i], SubSeq(s, j, j + 5),
                                         s[k], SubSeq(s, l, l + 6)>>]

\* re.findall: the matches from left to right, each search starting where the
\* match before it ended
RECURSIVE FindAllReversed(_, _)
FindAllReversed(s, from) ==
    LET starts == {i \in from..Len(s) : ReversedMatchAt(s, i) # NoMatch}
    IN  IF starts = {} THEN <<>>
        ELSE LET m == ReversedMatchAt(s, SetMin(starts))
             IN  <<m.groups>> \o FindAllReversed(s, m.end)

RECURSIVE FindAllStandard(_, _)
FindAllStandard(s, from) ==
    LET starts == {i \in from..Len(s) : StandardMatchAt(s, i) # NoMatch}
    IN  IF starts = {} THEN <<>>
        ELSE LET m == StandardMatchAt(s, SetMin(starts))
             IN  <<m.groups>> \o FindAllStandard(s, m.end)

\* the vertex (lon, lat) of a matched pair of tokens
Vertex(lat_dir, lat_val, lon_dir, lon_val) ==
    LET lat == parse_dms(<<lat_dir>> \o lat_val).val
        lon == parse_dms(<<lon_dir>> \o lon_val).val
    IN  <<lon, lat>>

\* Python's == on two (lon, lat) tuples of floats
SamePoint(p, q) == FEq(p[1], q[1]) /\ FEq(p[2], q[2])

\* a fault for ClosedRing: the first vertex is appended without the test
ClosedRingAlways(vertices) ==
    IF vertices # <<>> THEN Append(vertices, vertices[1]) ELSE vertices

\* the polygon branch: the vertices, and the first once more unless the last
\* equals it
ClosedRing(vertices) ==
    IF vertices # <<>> /\ ~SamePoint(vertices[1], vertices[Len(vertices)])
    THEN Append(vertices, vertices[1])
    ELSE vertices

\* a fault for UsedLayout: the standard layout is tried first
UsedLayoutStandardFirst(reversed_format, pairs) ==
    IF pairs # <<>> THEN "standard"
    ELSE IF reversed_format # <<>> THEN "reversed"
    ELSE "none"

\* which list of matches get_coords builds its result from: the reversed
\* layout's when it has any, else the standard layout's when it has any
UsedLayout(reversed_format, pairs) ==
    IF reversed_format # <<>> THEN "reversed"
    ELSE IF pairs # <<>> THEN "standard"
    ELSE "none"

\* the text get_coords works on
NormalizeCoordStr(coord_str0) == CollapseSpaces(Strip(ReplaceCyrillicE(coord_str0)))

\* the vertices of the matches of either layout, in match order
ReversedVertices(reversed_format) ==
    Tuple([i \in 1..Len(reversed_format) |->
              Vertex(reversed_format[i][2], reversed_format[i][1],
                     reversed_format[i][4], reversed_format[i][3])])

StandardVertices(pairs) ==
    Tuple([i \in 1..Len(pairs) |->
              Vertex(pairs[i][1], pairs[i][2], pairs[i][3], pairs[i][4])])

\* what get_coords returns for the vertices of the layout it uses, with its
\* locals; pairs stays None when the reversed layout matched
GetCoordsOf(circle_format, radius, reversed_format, pairs, layout, vertices) ==
    [circle_format   |-> circle_format,
     radius          |-> radius,
     reversed_format |-> reversed_format,
     pairs           |-> IF layout = "reversed" THEN None ELSE pairs,
     coords          |-> IF layout = "none" THEN <<>>
                         ELSE IF circle_format
                         THEN create_circle_polygon(vertices[1][2], vertices[1][1],
                                                    radius)
                         ELSE ClosedRing(vertices)]

GetCoordsLayout(circle_format, radius, reversed_format, pairs, layout) ==
    GetCoordsOf(circle_format, radius, reversed_format, pairs, layout,
                IF layout = "reversed" THEN ReversedVertices(reversed_format)
                ELSE StandardVertices(pairs))

GetCoordsMatches(circle_format, radius, reversed_format, pairs) ==
    GetCoordsLayout(circle_format, radius, reversed_format, pairs,
                    UsedLayout(reversed_format, pairs))

\* coord_str is the normalised text
GetCoordsFlagged(coord_str, circle_format) ==
    GetCoordsMatches(circle_format,
                     IF circle_format THEN extract_radius(coord_str)
                     ELSE DefaultRadius,
                     FindAllReversed(coord_str, 1), FindAllStandard(coord_str, 1))

\* get_coords with its locals
GetCoordsRun(coord_str0) ==
    GetCoordsFlagged(NormalizeCoordStr(coord_str0),
                     HasRadiusMarker(NormalizeCoordStr(coord_str0)))

get_coords(coord_str0) == GetCoordsRun(coord_str0).coords

(***************************************************************************)
(* The shape classifier: analyze_shape of kml_to_word.py.  A sample is a   *)
(* sequence of (lon, lat, alt) triples of floats; the result is the pair   *)
(* of the shape type and its data.                                         *)
(***************************************************************************)
\* the float a decimal literal denotes: n / 10^k, rounded
ClosureTolerance == FDiv(FFromInt(1), FFromInt(10000))

CircleVariance == FDiv(FFromInt(5), FFromInt(1000))

ParallelTolerance == FDiv(FFromInt(1), FFromInt(100000))

MetersPerDegree == 111000

target_points == 10

Shape(type, data) == [type |-> type, data |-> data]

\* a fault for IsClosed: the first and the last sample have to be equal
IsClosedExactly(coordinates) ==
    /\ FEq(coordinates[1][1], coordinates[Len(coordinates)][1])
    /\ FEq(coordinates[1][2], coordinates[Len(coordinates)][2])

\* math.sqrt((coordinates[0][0] - coordinates[-1][0])**2 +
\*           (coordinates[0][1] - coordinates[-1][1])**2) < 0.0001
IsClosed(coordinates) ==
    FLt(FSqrt(FAdd(Pow2(FSub(coordinates[1][1], coordinates[Len(coordinates)][1])),
                   Pow2(FSub(coordinates[1][2], coordinates[Len(coordinates)][2])))),
        ClosureTolerance)

\* sum(coord[k] for coord in coordinates) / len(coordinates)
Center(coordinates, k) ==
    FMean(Tuple([i \in 1..Len(coordinates) |-> coordinates[i][k]]))

\* the distance of every sample from the centre
Distances(coordinates, center_lon, center_lat) ==
    Tuple([i \in 1..Len(coordinates) |->
              FSqrt(FAdd(Pow2(FSub(coordinates[i][1], center_lon)),
                         Pow2(FSub(coordinates[i][2], center_lat))))])

\* sum((d - avg_distance)**2 for d in distances) / len(distances)
DistanceVariance(distances, avg_distance) ==
    FMean(Tuple([i \in 1..Len(distances) |->
                    Pow2(FSub(distances[i], avg_distance))]))

\* distance_variance / (avg_distance**2) if avg_distance > 0 else float('inf')
RelVariance(distance_variance, avg_distance) ==
    IF FGt0(avg_distance) THEN FDiv(distance_variance, Pow2(avg_distance))
    ELSE FInf

\* rel_variance < 0.005
BelowCircleVariance(rel_variance) ==
    rel_variance # FInf /\ FLt(rel_variance, CircleVariance)

\* "circle", (center_lat, center_lon, avg_distance * 111000)
CircleShape(center_lat, center_lon, avg_distance) ==
    Shape("circle", <<center_lat, center_lon,
                      FMul(avg_distance, FFromInt(MetersPerDegree))>>)

CircleAround(coordinates, center_lon, center_lat) ==
    CircleShape(center_lat, center_lon,
                FMean(Distances(coordinates, center_lon, center_lat)))

\* the dense closed line: centre and mean distance, no test of the spread
DenseLineCircle(coordinates) ==
    CircleAround(coordinates, Center(coordinates, 1), Center(coordinates, 2))

\* sides[i] of the first four samples, i = 0..3 in the source
Side(coordinates, i) ==
    <<FSub(coordinates[(i % 4) + 1][1], coordinates[i][1]),
      FSub(coordinates[(i % 4) + 1][2], coordinates[i][2])>>

\* abs(a[0] * b[1] - a[1] * b[0]) < 0.00001
Parallel(a, b) ==
    FLt(FAbs(FSub(FMul(a[1], b[2]), FMul(a[2], b[1]))), ParallelTolerance)

\* Python's != on two samples
Differ(p, q) == ~(FEq(p[1], q[1]) /\ FEq(p[2], q[2]) /\ FEq(p[3], q[3]))

\* coordinates[::step]
Strided(coordinates, step) ==
    Tuple([j \in 1..(((Len(coordinates) - 1) \div step) + 1) |->
              coordinates[(j - 1) * step + 1]])

\* a fault for CloseStrided: the last sample is never appended
CloseStridedNever(simple_coords, coordinates, is_closed) == simple_coords

\* the last sample is appended to a closed sample's selection that does not end
\* with it
CloseStrided(simple_coords, coordinates, is_closed) ==
    IF is_closed /\ Differ(simple_coords[Len(simple_coords)],
                           coordinates[Len(coordinates)])
    THEN Append(simple_coords, coordinates[Len(coordinates)])
    ELSE simple_coords

\* step = max(1, len(coordinates) // target_points) and the selection
SimpleCoords(coordinates, is_closed) ==
    CloseStrided(Strided(coordinates, Max(1, Len(coordinates) \div target_points)),
                 coordinates, is_closed)

\* the tests behind the circle tests, in the order of the source
PolygonShape(coordinates, is_closed) ==
    IF Len(coordinates) < 10 THEN Shape("polygon", coordinates)
    ELSE IF /\ Len(coordinates) = 5 /\ is_closed
            /\ Parallel(Side(coordinates, 1), Side(coordinates, 3))
            /\ Parallel(Side(coordinates, 2), Side(coordinates, 4))
    THEN Shape("rectangle", SubSeq(coordinates, 1, 4))
    ELSE IF Len(coordinates) > 10
    THEN Shape(IF is_closed THEN "complex_polygon" ELSE "path",
               SimpleCoords(coordinates, is_closed))
    ELSE Shape(IF is_closed THEN "polygon" ELSE "path", coordinates)

\* the circle test for the other cases, then the tests behind it
AnalyzeSpread(coordinates, shape_type_hint, is_closed, center, avg_distance, rel_variance) ==
    IF /\ (is_closed /\ Len(coordinates) > 10) \/ shape_type_hint = "polygon"
       /\ BelowCircleVariance(rel_variance)
    THEN CircleShape(center[2], center[1], avg_distance)
    ELSE PolygonShape(coordinates, is_closed)

\* avg_distance is known: distance_variance and rel_variance
AnalyzeAverage(coordinates, shape_type_hint, is_closed, center, distances, avg_distance) ==
    AnalyzeSpread(coordinates, shape_type_hint, is_closed, center, avg_distance,
                  RelVariance(DistanceVariance(distances, avg_distance),
                              avg_distance))

\* center = (center_lon, center_lat) is known: the distances and their mean
AnalyzeCentered(coordinates, shape_type_hint, is_closed, center, distances) ==
    AnalyzeAverage(coordinates, shape_type_hint, is_closed, center, distances,
                   FMean(distances))

\* is_closed is known: the centre of the samples
AnalyzeClosed(coordinates, shape_type_hint, is_closed, center) ==
    AnalyzeCentered(coordinates, shape_type_hint, is_closed, center,
                    Distances(coordinates, center[1], center[2]))

analyze_shape(coordinates, shape_type_hint) ==
    IF Len(coordinates) < 4 THEN Shape("point", coordinates)
    ELSE IF /\ Len(coordinates) > 50 /\ shape_type_hint = "line"
            /\ IsClosed(coordinates)
    THEN DenseLineCircle(coordinates)
    ELSE AnalyzeClosed(coordinates, shape_type_hint, IsClosed(coordinates),
                       <<Center(coordinates, 1), Center(coordinates, 2)>>)

(***************************************************************************)
(* State.  pc is the position of the run; the other variables are the      *)
(* arguments, locals and results of the function a specification           *)
(* exercises.  A specification leaves the variables of the others None.    *)
(***************************************************************************)
VARIABLES
    pc,
    dms_str, dec, dms_out,
    coord_text, coord_str, circle_format, radius, reversed_format, pairs, coords,
    zones, zone_i, successful_zones, failed_zones, kml, error,
    coordinates, shape_type_hint, shape

dmsVars == <<dms_str, dec, dms_out>>

\* coord_text is the text get_coords is called with, coord_str its local, which
\* get_coords rebinds to the normalised text
coordVars ==
    <<coord_text, coord_str, circle_format, radius, reversed_format, pairs, coords>>

mainVars == <<zones, zone_i, successful_zones, failed_zones, kml, error>>

shapeVars == <<coordinates, shape_type_hint, shape>>

vars == <<pc, dmsVars, coordVars, mainVars, shapeVars>>

\* the variables a specification does not use
IdleDms == dms_str = None /\ dec = None /\ dms_out = None

IdleCoords ==
    /\ coord_text = None /\ coord_str = None
    /\ circle_format = None /\ radius = None
    /\ reversed_format = None /\ pairs = None /\ coords = None

IdleMain ==
    /\ zones = None /\ zone_i = None /\ successful_zones = None
    /\ failed_zones = None /\ kml = None /\ error = None

IdleShape == coordinates = None /\ shape_type_hint = None /\ shape = None

(***************************************************************************)
(* SpecDms: a DMS token is decoded by parse_dms and the value is encoded   *)
(* again by decimal_to_dms, on the axis the token's letter names.          *)
(***************************************************************************)
\* the longest prefix cut off a fixed-width digit string
MaxCut == 2

\* the most digits appended to a fixed-width digit string
MaxExtra == 1

Directions == {"N", "S", "E", "W"}

DmsDegrees == {0, 43, 71, 180}

DmsMinutes == {0, 36, 39, 75}

DmsSeconds == {0, 4, 36, 99}

\* Python's s[k:]
Drop(s, k) == SubSeq(s, k + 1, Len(s))

RECURSIVE Sevens(_)
Sevens(k) == IF k <= 0 THEN <<>> ELSE <<"7">> \o Sevens(k - 1)

\* the fixed-width digit string of d, m, s on the axis of direction
FixedDigits(direction, d, m, s) ==
    FormatInt(d, DegWidth(direction)) \o FormatInt(m, 2) \o FormatInt(s, 2)

\* the digits 0-9 of a text written in the first of the other scripts
\* (Arabic-Indic, U+0660 to U+0669)
InScript(t) ==
    Tuple([i \in 1..Len(t) |->
        IF \E k \in 1..10 : Digits[k] = t[i]
        THEN ScriptDigits[1][DigitVal(t[i]) + 1] ELSE t[i]])

AsciiTokens ==
    { <<direction>> \o Drop(FixedDigits(direction, d, m, s), cut) \o Sevens(extra) :
        direction \in Directions, d \in DmsDegrees, m \in DmsMinutes,
        s \in DmsSeconds, cut \in 0..MaxCut, extra \in 0..MaxExtra }

DmsTokens == AsciiTokens \cup {InScript(t) : t \in AsciiTokens}

InitDms ==
    /\ pc = "parse_dms"
    /\ dms_str \in DmsTokens
    /\ dec = None
    /\ dms_out = None
    /\ IdleCoords /\ IdleMain /\ IdleShape

ParseDms ==
    /\ pc = "parse_dms"
    /\ \E r \in {parse_dms(dms_str)} :
           IF r.ok
           THEN dec' = r.val /\ pc' = "decimal_to_dms"
           ELSE dec' = r.exc /\ pc' = "raised"
    /\ dms_str' = Strip(dms_str)
    /\ UNCHANGED <<dms_out, coordVars, mainVars, shapeVars>>

DecimalToDms ==
    /\ pc = "decimal_to_dms"
    /\ dms_out' = decimal_to_dms(dec, dms_str[1] \in {"N", "S"})
    /\ pc' = "done"
    /\ UNCHANGED <<dms_str, dec, coordVars, mainVars, shapeVars>>

NextDms == ParseDms \/ DecimalToDms

SpecDms == InitDms /\ [][NextDms]_vars

Spec == SpecDms

\* C5 (as claimed): a valid fixed-width token (N or S with 6 digits, E or W
\* with 7, minutes and seconds in 0..59, degrees in the range of its axis) is
\* re-encoded to exactly itself.
ValidToken(t) ==
    /\ Len(t) = DegWidth(t[1]) + 5
    /\ AllDigits(Tail(t))
    /\ LET w == DegWidth(t[1])
       IN  /\ DigitsToInt(SubSeq(t, 2, w + 1)) <= (IF w = 2 THEN 90 ELSE 180)
           /\ DigitsToInt(SubSeq(t, w + 2, w + 3)) <= 59
           /\ DigitsToInt(SubSeq(t, w + 4, w + 5)) <= 59

C5_RoundTripExact ==
    (pc = "done" /\ ValidToken(dms_str)) => dms_out = dms_str

\* s with zeros in front up to width characters
LeftPad(s, width) ==
    Tuple([i \in 1..Max(width, Len(s)) |->
        IF i <= width - Len(s) THEN "0" ELSE s[i - Max(0, width - Len(s))]])

Opposite(direction) ==
    CASE direction = "N" -> "S" [] direction = "S" -> "N"
      [] direction = "E" -> "W" [] direction = "W" -> "E"

\* C6: parse_dms returns a value for every direction letter followed by
\* digits and never raises; a digit string shorter than the width of its axis
\* decodes like the same string with zeros in front; the value of an S or W
\* token is the negation of the value of the N or E token with the same digits.
C6_DecodeTotalPadded ==
    /\ pc # "raised"
    /\ pc \in {"decimal_to_dms", "done"} =>
         LET direction == dms_str[1]
             digits    == Tail(dms_str)
             width     == DegWidth(direction) + 4
         IN  /\ Len(digits) < width =>
                  dec = parse_dms(<<direction>> \o LeftPad(digits, width)).val
             /\ dec = FNeg(parse_dms(<<Opposite(direction)>> \o digits).val)
             /\ dec.s = (IF direction \in {"S", "W"} THEN 1 ELSE 0)

C6_Witness ==
    /\ pc = "decimal_to_dms"
    /\ dms_str[1] \in {"S", "W"}
    /\ Len(Tail(dms_str)) < DegWidth(dms_str[1]) + 4
    /\ ~IsZero(dec)

(***************************************************************************)
(* SpecCoords: get_coords is run on a zone's coordinate text.  The texts   *)
(* are up to MaxSegs coordinate pieces between radius pieces, joined by    *)
(* single spaces.                                                          *)
(***************************************************************************)
MaxSegs == 3

Segments == {
    \* N433604 E0765618
    <<"N", "4", "3", "3", "6", "0", "4", " ", "E", "0", "7", "6", "5",
      "6", "1", "8">>,
    \* S000500,W0765618
    <<"S", "0", "0", "0", "5", "0", "0", ",", "W", "0", "7", "6", "5",
      "6", "1", "8">>,
    \* 460755N<tab><no-break space>0805610E
    <<"4", "6", "0", "7", "5", "5", "N", "\t", "U+00A0", "0", "8", "0", "5",
      "6", "1", "0", "E">>,
    \* N460755 <Cyrillic Ie>0805610, the latitude in Arabic-Indic digits
    <<"N", "U+0664", "U+0666", "U+0660", "U+0667", "U+0665", "U+0665", " ",
      "CYR_E", "0", "8", "0", "5", "6", "1", "0">>
    }

\* the radius pieces in front of and behind the coordinate pieces: none,
\* R=9000 behind, a bare R- in front, R=9000 and R-7 in both orders, R- before
\* R-7
RadiusFrames == {
    [front |-> <<>>, back |-> <<>>],
    [front |-> <<>>, back |-> << <<"R", "=", "9", "0", "0", "0">> >>],
    [front |-> << <<"R", "-">> >>, back |-> <<>>],
    [front |-> << <<"R", "=", "9", "0", "0", "0">> >>,
     back |-> << <<"R", "-", "7">> >>],
    [front |-> << <<"R", "-", "7">> >>,
     back |-> << <<"R", "=", "9", "0", "0", "0">> >>],
    [front |-> << <<"R", "-">> >>, back |-> << <<"R", "-", "7">> >>]
    }

RECURSIVE Join(_)
Join(pieces) ==
    IF pieces = <<>> THEN <<>>
    ELSE IF Len(pieces) = 1 THEN pieces[1]
    ELSE pieces[1] \o <<" ">> \o Join(Tail(pieces))

CoordTexts ==
    UNION { { Join(frame.front \o ps \o frame.back) :
                ps \in [1..n -> Segments], frame \in RadiusFrames } :
            n \in 0..MaxSegs }

InitCoords ==
    /\ pc = "get_coords"
    /\ coord_text \in CoordTexts
    /\ coord_str = coord_text
    /\ circle_format = None /\ radius = None
    /\ reversed_format = None /\ pairs = None /\ coords = None
    /\ IdleDms /\ IdleMain /\ IdleShape

GetCoords ==
    /\ pc = "get_coords"
    /\ coord_str' = NormalizeCoordStr(coord_str)
    /\ \E run \in {GetCoordsRun(coord_str)} :
           /\ circle_format' = run.circle_format
           /\ radius' = run.radius
           /\ reversed_format' = run.reversed_format
           /\ pairs' = run.pairs
           /\ coords' = run.coords
    /\ pc' = "returned"
    /\ UNCHANGED <<coord_text, dmsVars, mainVars, shapeVars>>

NextCoords == GetCoords

SpecCoords == InitCoords /\ [][NextCoords]_vars

\* the matches the result was built from, each as <<lat_dir, lat_val, lon_dir,
\* lon_val>>, and the decoded vertex (lon, lat) of each
UsedMatches ==
    IF reversed_format # <<>>
    THEN Tuple([i \in 1..Len(reversed_format) |->
                   <<reversed_format[i][2], reversed_format[i][1],
                     reversed_format[i][4], reversed_format[i][3]>>])
    ELSE pairs

Decoded(match) ==
    <<parse_dms(<<match[3]>> \o match[4]).val, parse_dms(<<match[1]>> \o match[2]).val>>

\* the places of the raw text where "R", then "=" or "-", then a digit stand
RadiusTokens(text) ==
    {i \in 1..Len(text) :
        /\ i + 2 <= Len(text)
        /\ text[i] = "R" /\ text[i + 1] \in {"=", "-"} /\ IsDigit(text[i + 2])}

\* the number spelled by the digits that follow the token at place i
RECURSIVE DigitRunValue(_, _, _)
DigitRunValue(text, i, acc) ==
    IF i <= Len(text) /\ IsDigit(text[i])
    THEN DigitRunValue(text, i + 1, 10 * acc + DigitVal(text[i]))
    ELSE acc

\* every matched pair is a vertex of the result, in match order
PairsAreVertices ==
    /\ Len(coords) >= Len(UsedMatches)
    /\ \A i \in 1..Len(UsedMatches) : coords[i] = Decoded(UsedMatches[i])

\* C2 (as claimed): the record is a circle definition exactly when its text
\* has a token "R", "=" or "-", digits, and then the radius is that number;
\* every other text is treated as a polygon.
C2_CircleIffRadiusToken ==
    pc = "returned" =>
        /\ circle_format <=> (RadiusTokens(coord_text) # {})
        /\ RadiusTokens(coord_text) # {} =>
             radius = DigitRunValue(coord_text, SetMin(RadiusTokens(coord_text)) + 2, 0)
        /\ RadiusTokens(coord_text) = {} => PairsAreVertices

\* C2 (amended): the record is a circle definition exactly when its text
\* contains "R=" or "R-"; the radius is the number of the first token "R",
\* "=" or "-", digits when there is one and 5000 otherwise; a text with neither
\* "R=" nor "R-" is treated as a polygon, every matched pair a ring vertex.
C2_CircleIffRadiusMarker ==
    pc = "returned" =>
        LET marked == \E i \in 1..(Len(coord_text) - 1) :
                          coord_text[i] = "R" /\ coord_text[i + 1] \in {"=", "-"}
        IN  /\ circle_format <=> marked
            /\ radius = IF RadiusTokens(coord_text) # {}
                        THEN DigitRunValue(coord_text,
                                           SetMin(RadiusTokens(coord_text)) + 2, 0)
                        ELSE 5000
            /\ ~marked => PairsAreVertices
            /\ (marked /\ UsedMatches # <<>>) => Len(coords) = 37

\* a text with "R-" and no digits behind it became a circle of the default radius
C2_Witness ==
    /\ pc = "returned"
    /\ RadiusTokens(coord_text) = {}
    /\ circle_format = TRUE
    /\ radius = 5000
    /\ Len(coords) = 37

\* C7: without a radius flag and with at least one matched pair, the result is
\* the decoded pairs as (longitude, latitude) in match order, followed by one
\* more copy of the first vertex exactly when the first and the last matched
\* vertex differ; so the first and the last vertex of the result are equal.
C7_PolygonRing ==
    (pc = "returned" /\ circle_format = FALSE /\ UsedMatches # <<>>) =>
        LET n     == Len(UsedMatches)
            first == Decoded(UsedMatches[1])
            last  == Decoded(UsedMatches[n])
        IN  /\ PairsAreVertices
            /\ IF FEq(first[1], last[1]) /\ FEq(first[2], last[2])
               THEN Len(coords) = n
               ELSE Len(coords) = n + 1 /\ coords[n + 1] = first
            /\ FEq(coords[1][1], coords[Len(coords)][1])
            /\ FEq(coords[1][2], coords[Len(coords)][2])

\* a polygon of several matched pairs whose last differs from the first: closed
\* by a copy of the first
C7_Witness ==
    /\ pc = "returned"
    /\ circle_format = FALSE
    /\ Len(UsedMatches) >= 2
    /\ Len(coords) = Len(UsedMatches) + 1
    /\ coords[1] # coords[Len(UsedMatches)]
    /\ coords[Len(coords)] = coords[1]

\* C8 (as claimed): with the radius flag and at least one matched pair, the
\* result is the circle around the first matched pair with the radius, whatever
\* pairs follow: a ring of 37 vertices whose first and last vertex are the same
\* point.
C8_CircleClosedRing ==
    (pc = "returned" /\ circle_format = TRUE /\ UsedMatches # <<>>) =>
        LET center == Decoded(UsedMatches[1])
        IN  /\ coords = create_circle_polygon(center[2], center[1], radius)
            /\ Len(coords) = 37
            /\ FEq(coords[1][1], coords[37][1])
            /\ FEq(coords[1][2], coords[37][2])

\* C9: the vertices come from one layout.  When the reversed layout matches
\* anywhere in the text, the result is built from its matches alone and the
\* standard layout's matches are left out; the standard layout's matches are
\* used when the reversed layout has none; with no match of either the result
\* is empty, with or without a radius marker.
LayoutMatches(text) ==
    LET rev == FindAllReversed(text, 1)
    IN  [reversed |-> Tuple([i \in 1..Len(rev) |->
                                <<rev[i][2], rev[i][1], rev[i][4], rev[i][3]>>]),
         standard |-> FindAllStandard(text, 1)]

\* coords is built from the matches ms alone: the ring of their vertices, or
\* the circle whose vertex at angle 0 has the latitude of the first of them
BuiltFrom(ms) ==
    IF circle_format
    THEN Len(coords) = 37 /\ coords[1][2] = Decoded(ms[1])[2]
    ELSE /\ Len(coords) \in {Len(ms), Len(ms) + 1}
         /\ \A i \in 1..Len(coords) :
                coords[i] = Decoded(ms[IF i <= Len(ms) THEN i ELSE 1])

C9_OneLayout ==
    pc = "returned" =>
        LET found == LayoutMatches(NormalizeCoordStr(coord_text))
        IN  /\ found.reversed # <<>> => BuiltFrom(found.reversed)
            /\ (found.reversed = <<>> /\ found.standard # <<>>) =>
                   BuiltFrom(found.standard)
            /\ (found.reversed = <<>> /\ found.standard = <<>>) => coords = <<>>

\* a text in which both layouts match: the polygon has the reversed layout's
\* vertices only
C9_Witness ==
    /\ pc = "returned"
    /\ circle_format = FALSE
    /\ LayoutMatches(NormalizeCoordStr(coord_text)).standard # <<>>
    /\ reversed_format # <<>>
    /\ \A i \in 1..Len(coords) : coords[i] = Decoded(UsedMatches[1])
    /\ Decoded(LayoutMatches(NormalizeCoordStr(coord_text)).standard[1])
           # Decoded(UsedMatches[1])

(***************************************************************************)
(* The batch driver: main of create_kml_zones.py.  A zone record is a      *)
(* function from the keys it has to JSON values; a JSON value is null or a *)
(* string.  The letters of the exclusion marker are written CYR_x.         *)
(***************************************************************************)
JNull == [type |-> "null"]

JStr(s) == [type |-> "str", s |-> s]

\* dict.get(key, default)
Get(zone, key, default) == IF key \in DOMAIN zone THEN zone[key] ELSE default

\* not value, for null and for strings
Falsy(value) == value.type = "null" \/ value.s = <<>>

ExclusionMarker ==
    <<"CYR_I", "CYR_s", "CYR_k", "CYR_l", "CYR_yu", "CYR_ch", "CYR_e", "CYR_n",
      "CYR_a", " ", "CYR_p", "CYR_r", "CYR_i", "CYR_k", "CYR_a", "CYR_z",
      "CYR_o", "CYR_m">>

\* the lists of zone records of the model: at most MaxZones records, the name
\* and the coordinate text of each absent, null, empty or a string
MaxZones == 2

Absent == [type |-> "absent"]

ZoneNames ==
    {Absent, JNull, JStr(<<>>),
     JStr(<<"U", "A", "R", "-", "1">>),
     JStr(<<"U", "A", "R", "-", "2", " ">> \o ExclusionMarker \o <<" ", "N", "5">>),
     \* the marker with a small first letter
     JStr(<<"U", "A", "R", "-", "3", " ", "CYR_i">> \o Tail(ExclusionMarker))}

ZoneTexts ==
    {Absent, JNull, JStr(<<>>),
     \* N433604 E0765618 N460755 E0805610
     JStr(<<"N", "4", "3", "3", "6", "0", "4", " ", "E", "0", "7", "6", "5",
            "6", "1", "8", " ", "N", "4", "6", "0", "7", "5", "5", " ", "E",
            "0", "8", "0", "5", "6", "1", "0">>),
     \* n/a
     JStr(<<"n", "/", "a">>)}

ZoneRecord(name, text) ==
    [key \in (IF name = Absent THEN {} ELSE {"1"})
               \cup (IF text = Absent THEN {} ELSE {"2"}) |->
        IF key = "1" THEN name ELSE text]

ZoneRecords == {ZoneRecord(name, text) : name \in ZoneNames, text \in ZoneTexts}

ZoneLists == UNION {[1..n -> ZoneRecords] : n \in 0..MaxZones}

InitMain ==
    /\ pc = "main"
    /\ zones \in ZoneLists
    /\ zone_i = 1
    /\ successful_zones = 0
    /\ failed_zones = 0
    /\ kml = <<>>
    /\ error = None
    /\ IdleDms /\ IdleCoords /\ IdleShape

\* one turn of "for zone in zones"
ProcessZone ==
    /\ pc = "main"
    /\ zone_i <= Len(zones)
    /\ \E zone \in {zones[zone_i]} :
         IF Get(zone, "1", JStr(<<>>)).type = "null"
         THEN \* "..." in None
              /\ pc' = "aborted"
              /\ error' = "TypeError"
              /\ UNCHANGED <<zone_i, successful_zones, failed_zones, kml>>
         ELSE IF Contains(Get(zone, "1", JStr(<<>>)).s, ExclusionMarker)
         THEN /\ zone_i' = zone_i + 1
              /\ UNCHANGED <<pc, successful_zones, failed_zones, kml, error>>
         ELSE \E name \in {Get(zone, "1", JStr(<<>>))},
                 text \in {Get(zone, "2", JStr(<<>>))} :
              IF Falsy(name) \/ Falsy(text)
              THEN /\ zone_i' = zone_i + 1
                   /\ UNCHANGED <<pc, successful_zones, failed_zones, kml, error>>
              ELSE \E result \in {get_coords(text.s)} :
                   IF result = <<>>
                   THEN /\ failed_zones' = failed_zones + 1
                        /\ zone_i' = zone_i + 1
                        /\ UNCHANGED <<pc, successful_zones, kml, error>>
                   ELSE /\ kml' = Append(kml, [name |-> name.s,
                                               outerboundaryis |-> result])
                        /\ successful_zones' = successful_zones + 1
                        /\ zone_i' = zone_i + 1
                        /\ UNCHANGED <<pc, failed_zones, error>>
    /\ UNCHANGED <<zones, dmsVars, coordVars, shapeVars>>

\* the list is exhausted: kml.save and the closing report
SaveKml ==
    /\ pc = "main"
    /\ zone_i > Len(zones)
    /\ pc' = "saved"
    /\ UNCHANGED <<dmsVars, coordVars, mainVars, shapeVars>>

NextMain == ProcessZone \/ SaveKml

SpecMain == InitMain /\ [][NextMain]_vars

\* how a record is to be handled: a value is missing when it is absent, null
\* or the empty string
Missing(zone, key) ==
    \/ key \notin DOMAIN zone
    \/ zone[key].type = "null"
    \/ zone[key].s = <<>>

ToBeSkipped(zone) ==
    \/ Missing(zone, "1")
    \/ Missing(zone, "2")
    \/ Contains(zone["1"].s, ExclusionMarker)

ToFail(zone) == ~ToBeSkipped(zone) /\ get_coords(zone["2"].s) = <<>>

ToSucceed(zone) == ~ToBeSkipped(zone) /\ get_coords(zone["2"].s) # <<>>

Handled == 1..(zone_i - 1)

\* C3: the loop never aborts; every record is handled in one way: skipped
\* without a change of either counter when its name has the exclusion marker or
\* its name or coordinate text is missing, counted in failed_zones when
\* get_coords returns nothing, counted in successful_zones otherwise; at the
\* end successful_zones + failed_zones + skipped records = number of records.
C3_BatchNeverAborts ==
    pc \in {"main", "saved", "aborted"} =>
        /\ pc # "aborted"
        /\ successful_zones = Cardinality({i \in Handled : ToSucceed(zones[i])})
        /\ failed_zones = Cardinality({i \in Handled : ToFail(zones[i])})
        /\ pc = "saved" =>
             /\ zone_i = Len(zones) + 1
             /\ successful_zones + failed_zones
                  + Cardinality({i \in Handled : ToBeSkipped(zones[i])})
                  = Len(zones)

(***************************************************************************)
(* SpecShape: analyze_shape on samples laid out on a grid of 1/100000      *)
(* degree.  A sample follows an outline round and round for all but its    *)
(* last point, which is the first point moved by a gap.                    *)
(***************************************************************************)
\* the samples above 50 points have 51 .. 50 + MaxDense points
MaxDense == 1

Sizes == {3, 4, 5, 9, 10, 11, 13, 20, 50} \cup (51..(50 + MaxDense))

Hints == {None, "polygon", "line"}

\* a ring of radius 650, a rectangle, a zigzag
Outlines ==
    {<<<<650, 0>>, <<600, 250>>, <<250, 600>>, <<0, 650>>, <<-250, 600>>,
       <<-600, 250>>, <<-650, 0>>, <<-600, -250>>, <<-250, -600>>,
       <<0, -650>>, <<250, -600>>, <<600, -250>>>>,
     <<<<0, 0>>, <<1000, 0>>, <<1000, 600>>, <<0, 600>>>>,
     <<<<0, 0>>, <<300, 200>>, <<600, 0>>, <<900, 200>>, <<1200, 0>>,
       <<1500, 200>>>>}

\* the last point on the first, within the closure tolerance of it, away from it
Gaps == {<<0, 0>>, <<6, 0>>, <<0, 250>>}

\* float("76.5" + x/100000), float("43.6" + y/100000), 0.0
GridPoint(x, y) ==
    <<FDiv(FFromInt(7650000 + x), FFromInt(100000)),
      FDiv(FFromInt(4360000 + y), FFromInt(100000)), FZero(0)>>

\* an outline with its points on the grid
GridOutlines ==
    {[corner |-> outline[1],
      points |-> Tuple([k \in 1..Len(outline) |->
                           GridPoint(outline[k][1], outline[k][2])])] :
        outline \in Outlines}

Sample(outline, n, gap) ==
    Tuple([k \in 1..n |->
              IF k < n
              THEN outline.points[((k - 1) % Len(outline.points)) + 1]
              ELSE GridPoint(outline.corner[1] + gap[1],
                             outline.corner[2] + gap[2])])

Samples ==
    {Sample(outline, n, gap) : outline \in GridOutlines, n \in Sizes, gap \in Gaps}

InitShape ==
    /\ pc = "analyze_shape"
    /\ coordinates \in Samples
    /\ shape_type_hint \in Hints
    /\ shape = None
    /\ IdleDms /\ IdleCoords /\ IdleMain

AnalyzeShape ==
    /\ pc = "analyze_shape"
    /\ shape' = analyze_shape(coordinates, shape_type_hint)
    /\ pc' = "classified"
    /\ UNCHANGED <<coordinates, shape_type_hint, dmsVars, coordVars, mainVars>>

NextShape == AnalyzeShape

SpecShape == InitShape /\ [][NextShape]_vars

\* the first and the last sample are within the closure tolerance
WithinClosureTolerance ==
    FLt(FSqrt(FAdd(Pow2(FSub(coordinates[1][1], coordinates[Len(coordinates)][1])),
                   Pow2(FSub(coordinates[1][2], coordinates[Len(coordinates)][2])))),
        FDiv(FFromInt(1), FFromInt(10000)))

\* both pairs of opposite edges of the first four samples are parallel
OppositeEdgesParallel ==
    /\ Parallel(Side(coordinates, 1), Side(coordinates, 3))
    /\ Parallel(Side(coordinates, 2), Side(coordinates, 4))

\* C1: a closed sample of exactly 5 points that is not classified as a circle
\* and whose first 4 points have both pairs of opposite edges parallel is a
\* rectangle with those 4 points as corners.
C1_RectangleOfParallelEdges ==
    (/\ pc = "classified"
     /\ Len(coordinates) = 5
     /\ WithinClosureTolerance
     /\ shape.type # "circle"
     /\ OppositeEdgesParallel)
        => shape = Shape("rectangle", SubSeq(coordinates, 1, 4))

\* the number of samples the stride selects, and the place of the last of them
StrideOf(n) == IF n \div 10 >= 1 THEN n \div 10 ELSE 1

Selected(n) == ((n - 1) \div StrideOf(n)) + 1

\* C4: a closed sample of more than 10 points that is not classified as a
\* circle is a complex polygon; its reduced list is the strided selection,
\* which starts with the first sample, followed by the last sample when the
\* selection did not end with a point equal to it; so the list ends with a
\* point equal to the last sample.
C4_DownsampleKeepsClosure ==
    (/\ pc = "classified"
     /\ Len(coordinates) > 10
     /\ WithinClosureTolerance
     /\ shape.type # "circle")
        => LET n    == Len(coordinates)
               k    == Selected(n)
               last == coordinates[(k - 1) * StrideOf(n) + 1]
           IN  /\ shape.type = "complex_polygon"
               /\ shape.data[1] = coordinates[1]
               /\ \A j \in 1..k : shape.data[j] = coordinates[(j - 1) * StrideOf(n) + 1]
               /\ Len(shape.data) = IF last = coordinates[n] THEN k ELSE k + 1
               /\ shape.data[Len(shape.data)] = coordinates[n]

\* a closed sample whose selection stops before the last sample, which is
\* appended
C4_Witness ==
    /\ pc = "classified"
    /\ Len(coordinates) > 10
    /\ WithinClosureTolerance
    /\ shape.type = "complex_polygon"
    /\ Len(shape.data) = Selected(Len(coordinates)) + 1
    /\ shape.data[Selected(Len(coordinates))] # coordinates[Len(coordinates)]
    /\ shape.data[Len(shape.data)] = coordinates[Len(coordinates)]

\* C10: with the hint "line", a sample of more than 50 points is a circle
\* exactly when it is closed, whatever the spread of its distances from the
\* centroid; an unclosed sample of any size is never a circle.
C10_DenseLineCircleIffClosed ==
    (pc = "classified" /\ shape_type_hint = "line") =>
        /\ Len(coordinates) > 50 =>
               (shape.type = "circle" <=> WithinClosureTolerance)
        /\ ~WithinClosureTolerance => shape.type # "circle"

\* a dense line, closed within the tolerance, is a circle although its spread
\* is too wide for one under the hint "polygon"
C10_Witness ==
    /\ pc = "classified"
    /\ shape_type_hint = "line"
    /\ Len(coordinates) > 50
    /\ coordinates[1] # coordinates[Len(coordinates)]
    /\ WithinClosureTolerance
    /\ shape.type = "circle"
    /\ analyze_shape(coordinates, "polygon").type = "complex_polygon"

\* a sample that reached the downsampling step: more than 10 points, reduced
\* to a complex polygon or a path
Downsampled ==
    /\ pc = "classified"
    /\ Len(coordinates) > 10
    /\ shape.type \in {"complex_polygon", "path"}

\* C11: for a sample of more than 10 points that reaches the downsampling
\* step, the reduced list (stride max(1, n \div 10), the appended closing
\* point included) has between 8 and 12 points.
C11_ReducedSizeBetween8And12 ==
    Downsampled => (Len(shape.data) >= 8 /\ Len(shape.data) <= 12)

====
